---- MODULE Spec2Model ----
(***************************************************************************)
(* bento.rs: the container lifecycle engine of crates/libbento.            *)
(*                                                                         *)
(* One container id.  A create call is an Orchestrator process that forks  *)
(* a Bridge, which forks Init; the three talk over two anonymous pipes     *)
(* (orchestrator->bridge, bridge->orchestrator).  Init pauses on a named   *)
(* pipe inside the container's rootfs until `start` writes "start" to it.  *)
(* The persisted state is one JSON file per container.                     *)
(***************************************************************************)
EXTENDS Integers, Sequences, FiniteSets, TLC

(* ------------------------------ bounds -------------------------------- *)
\* create invocations on the id (each one is a new Orchestrator/Bridge/Init)
MaxCreates == 2
\* start invocations that can be in progress at once
NStarts == 2
\* environment faults in total: a system call or helper that fails, a stray
\* write to the resume FIFO
MaxFaults == 1
\* state files in the state directory when list runs
MaxListed == 2
\* creation times on either side of the first two-digit number of seconds
StampSpan == 1
\* length of the strings in the fields of a ContainerState that is written
\* to a state file and read back
MaxStrLen == 1
\* processes in the base cgroup, and in a container cgroup left over from an
\* earlier run, when the cgroup of a container is set up or cleaned up
MaxProcs == 2
\* components of the cgroup path of the runtime in /proc/self/cgroup
MaxDepth == 3
\* mappings in a list of uid or gid mappings
MaxMaps == 2
\* bits of the unsigned integers of an id mapping (u32 in the program; the
\* arithmetic is the same at every width)
IdBits == 3

(* -------------------------- program constants ------------------------- *)
\* read_start_signal: let mut buffer = [0u8; 5]
TokenLen == 5
\* u64::to_string renders in base ten
Radix == 10
\* start_container: pipe.write_all(b"start")
StartToken == <<"s", "t", "a", "r", "t">>

\* an id as the examples of the command line give it, and the ids the
\* validation is about: empty, with a '/', with ".."
ValidId == <<"c", "1">>
ContainerIds == {ValidId, <<>>, <<"a", "/", "b">>, <<".", ".">>}

\* std::env::var("HOME")
Home == <<"/", "h">>
\* the string literals of the path formats.  A path is a sequence of pieces:
\* the characters of an id, and each literal as one piece after its first '/'
BentoDir == <<"/", ".local/share/bento/">>
RootfsDir == <<"/", "rootfs">>
StartPipePrefix == <<"/", "tmp/bento-start-">>

Gens == 1..MaxCreates
Starters == 1..NStarts
NoState == [status |-> "absent", pid |-> 0]

\* the two ends the Orchestrator's struct owns, the three the Bridge's owns
OrchestratorPipes == {"b2o_r", "o2b_w"}
BridgePipes == {"o2b_r", "b2o_w", "start_r"}
\* ContainerPipes::create: three pipe() calls before any fork; the write end
\* of the start pipe is a local of create() and is closed when it returns.
ContainerPipes_create == OrchestratorPipes \cup BridgePipes
SyncEnds == {"o2b_r", "o2b_w", "b2o_r", "b2o_w"}

Events == {"R", "gidmap", "uidmap", "M", "unshare2", "forkInit", "pid",
           "mkfifo", "save"}
NoEvents == [e \in Events |-> 0]

VARIABLES
    stateFile,     \* state/<id>.json: NoState or a ContainerState
    fifoPath,      \* inode at orchestrator_start_pipe_path; 0 = no such file
    fifoBuf,       \* bytes buffered in FIFO inode i
    fifoW,         \* start invocations holding inode i open for writing
    cur,           \* create invocations so far; the running one is cur
    orch,          \* where the Orchestrator of call cur is
    finalPid,      \* Orchestrator's final_container_pid
    orchErr,       \* call cur: the step whose error ended it ("none")
    createResult,  \* call cur: what create_container returned ("none")
    bridge,        \* per call: where the Bridge is
    reaped,        \* call cur: the Bridge has been waited for
    init,          \* per call: where Init is
    initIno,       \* per call: FIFO inode Init has opened / blocks opening
    initBuf,       \* per call: bytes read_exact has collected
    ofds, bfds, ifds, \* per call: pipe ends open in Orchestrator/Bridge/Init
    b2o, o2b,      \* per call: bytes in flight in the two sync pipes
    ev,            \* call cur: how often each protocol event has happened
    st,            \* per start invocation: where it is
    stState,       \* per start invocation: the ContainerState it loaded from the file
    stIno,         \* per start invocation: FIFO inode it opens / has opened
    stResult,      \* per start invocation: what start_container returned
    faults,        \* environment faults so far
    prevStatus,    \* the persisted status before its last change
    lastOp,        \* the operation that made the last change of the status
    lastCli,       \* what a kill or delete returned, until the next create or start
    stateDir,      \* list: the state files of the state directory, in
                   \* read_dir order (the containers list is asked about)
    listed,        \* list: what list_containers returned
    container_id,  \* config.container_id, the <id> of the command line
    initNs,        \* per call: the namespaces Init was forked into
    fsPc,          \* prepare_rootfs: the step Init is at
    fsLog,         \* prepare_rootfs: the calls made so far, in order; a
                   \* name ending in '!' is a call that failed
    devDir,        \* prepare_rootfs: the entries of <rootfs>/dev
    jsonIn,        \* state store: the ContainerState handed to save
    jsonFile,      \* state store: the bytes of the state file
    jsonOut,       \* state store: what load returned
    cgPc,          \* cgroups: the call the CgroupManager is at
    cgFlags,       \* cgroups: the limit options of the create command line
    cgConfig,      \* cgroups: the CgroupsConfig built from them
    cgFiles,       \* cgroups: the base cgroup, its bento-control leaf and
                   \* the container's cgroup as the kernel shows them
    cgLog,         \* cgroups: the file-system calls the manager has made
    proc_self_cgroup, \* cgroups: the path on the 0:: line of /proc/self/cgroup
    base_path,     \* cgroups: base_path of get_user_cgroup_base
    writable,      \* cgroups: the cgroup directories the user can write to
    mappings,      \* id maps: the uid or gid mappings of a configuration
    overflow_checks, \* id maps: whether the build traps on integer overflow
    map_result     \* id maps: what validate_id_mappings returned

vars == <<stateFile, fifoPath, fifoBuf, fifoW, cur, orch, finalPid, orchErr,
          createResult, bridge, reaped, init, initIno, initBuf, ofds, bfds,
          ifds, b2o, o2b, ev, st, stState, stIno, stResult, faults, prevStatus,
          lastOp, lastCli, stateDir, listed, container_id, initNs, fsPc,
          fsLog, devDir, jsonIn, jsonFile, jsonOut, cgPc, cgFlags,
          cgConfig, cgFiles, cgLog, proc_self_cgroup, base_path, writable,
          mappings, overflow_checks, map_result>>

stateVars == <<stateFile, prevStatus, lastOp>>
fifoVars == <<fifoPath, fifoBuf, fifoW>>
orchVars == <<cur, orch, finalPid, orchErr, createResult, reaped, ofds>>
bridgeVars == <<bridge, bfds>>
initVars == <<init, initIno, initBuf, ifds>>
pipeVars == <<b2o, o2b>>
startVars == <<st, stState, stIno, stResult>>
listVars == <<stateDir, listed>>
fsVars == <<fsPc, fsLog, devDir>>
jsonVars == <<jsonIn, jsonFile, jsonOut>>
baseVars == <<proc_self_cgroup, base_path, writable>>
cgVars == <<cgPc, cgFlags, cgConfig, cgFiles, cgLog, baseVars>>
\* what the lifecycle steps read at most: the id, and the parts of the
\* program that are specified on their own
mapVars == <<mappings, overflow_checks, map_result>>
sideVars == <<container_id, initNs, fsVars, jsonVars, cgVars, mapVars>>

\* nothing has been created and no process runs
NoContainer ==
    /\ stateFile = NoState
    /\ fifoPath = 0
    /\ fifoBuf = [i \in Gens |-> <<>>]
    /\ fifoW = [i \in Gens |-> {}]
    /\ cur = 0
    /\ orch = "idle"
    /\ finalPid = 0
    /\ orchErr = "none"
    /\ createResult = "none"
    /\ bridge = [g \in Gens |-> "none"]
    /\ reaped = FALSE
    /\ init = [g \in Gens |-> "none"]
    /\ initIno = [g \in Gens |-> 0]
    /\ initBuf = [g \in Gens |-> <<>>]
    /\ ofds = [g \in Gens |-> {}]
    /\ bfds = [g \in Gens |-> {}]
    /\ ifds = [g \in Gens |-> {}]
    /\ b2o = [g \in Gens |-> <<>>]
    /\ o2b = [g \in Gens |-> <<>>]
    /\ ev = NoEvents
    /\ st = [s \in Starters |-> "idle"]
    /\ stState = [s \in Starters |-> NoState]
    /\ stIno = [s \in Starters |-> 0]
    /\ stResult = [s \in Starters |-> "none"]
    /\ faults = 0
    /\ prevStatus = "absent"
    /\ lastOp = "none"
    /\ lastCli = "none"
    /\ initNs = [g \in Gens |-> {}]

\* no list has been asked for
NoList == stateDir = <<>> /\ listed = <<>>

\* no prepare_rootfs is being followed
NoFs == fsPc = "none" /\ fsLog = <<>> /\ devDir = {}

\* no state-file round trip is being followed
NoJson == jsonIn = NoState /\ jsonFile = <<>> /\ jsonOut = NoState

\* no cgroup is being set up
NoCg ==
    /\ cgPc = "none" /\ cgFlags = <<>> /\ cgConfig = <<>> /\ cgFiles = <<>>
    /\ cgLog = <<>>
    /\ proc_self_cgroup = <<>> /\ base_path = <<>> /\ writable = {}

\* no list of id mappings is being validated
NoMap == mappings = <<>> /\ overflow_checks = FALSE /\ map_result = "none"

NoSide == NoFs /\ NoJson /\ NoCg /\ NoMap

Init ==
    /\ NoContainer
    /\ NoList
    /\ NoSide
    /\ container_id = ValidId

(* ------------------------------ helpers ------------------------------- *)
\* an outcome the environment decides: the failing one uses up a fault
Env(ok) ==
    /\ ok \/ faults < MaxFaults
    /\ faults' = IF ok THEN faults ELSE faults + 1

\* ev counts the events of the latest create call only
Bump(g, e) == IF g = cur THEN [ev EXCEPT ![e] = @ + 1] ELSE ev

\* a process with the recorded pid exists (kill(pid, SIGCONT) succeeds)
InitLive(g) == init[g] \in {"rootfs", "open", "opening", "read", "exec", "execd"}
\* (pid 0 addresses the caller's own process group, which always exists)
\* fault injection: a liveness probe that never reports ESRCH
PidAlive_always(p) == TRUE

PidAlive(p) == p = 0 \/ (p \in Gens /\ InitLive(p))

\* some process still holds the given end of call g's pipes
EndOpen(g, end) == end \in (ofds[g] \cup bfds[g] \cup ifds[g])

\* a blocking read(2) on a pipe returns once there is data or no writer is left
CanRead(buf, writerOpen) == buf # <<>> \/ ~writerOpen

(* --------------------------- the state store -------------------------- *)
\* save_container_state: the whole file is replaced by the caller's record.
\* prevStatus/lastOp remember the last change of the persisted status.
save_container_state(rec, op) ==
    /\ stateFile' = rec
    /\ prevStatus' = IF rec.status # stateFile.status THEN stateFile.status
                     ELSE prevStatus
    /\ lastOp' = IF rec.status # stateFile.status THEN op ELSE lastOp

\* Option<String>
None == [some |-> FALSE, val |-> <<>>]
Some(x) == [some |-> TRUE, val |-> x]

\* str::contains: pat occurs in str as a contiguous run
contains(str, pat) ==
    \E i \in 0..(Len(str) - Len(pat)) : SubSeq(str, i + 1, i + Len(pat)) = pat

\* ContainerState::new: status "created", the pid the Orchestrator received,
\* no start pipe path yet
ContainerState_new(id, pid) ==
    [status |-> "created", pid |-> pid, id |-> id, start_pipe_path |-> None]

\* get_rootfs and orchestrator_handler's container_rootfs:
\* format!("{home}/.local/share/bento/{container_id}/rootfs")
get_rootfs(id) == Home \o BentoDir \o id \o RootfsDir

\* orchestrator_handler: format!("{}/tmp/bento-start-{}", container_rootfs, id),
\* the path given to mkfifo
orchestrator_start_pipe_path(id) == get_rootfs(id) \o StartPipePrefix \o id

\* orchestrator_handler: the path stored in the state,
\* format!("/tmp/bento-start-{}", config.container_id)
container_start_pipe_path(id) == StartPipePrefix \o id

\* fault injection: the host path built with Path::join, where an absolute
\* second path replaces the first
host_pipe_path_joined(id, start_pipe_path) ==
    IF start_pipe_path # <<>> /\ Head(start_pipe_path) = "/"
    THEN start_pipe_path
    ELSE get_rootfs(id) \o <<"/">> \o start_pipe_path

\* start_container: format!("{}/.local/share/bento/{}/rootfs{}", home,
\* container_id, start_pipe_path)
host_pipe_path(id, start_pipe_path) ==
    Home \o BentoDir \o id \o RootfsDir \o start_pipe_path

\* init_handler_with_pause: format!("/tmp/bento-start-{}", config.container_id)
\* opened after pivot_root(rootfs), so below get_rootfs(id) on the host
init_start_pipe_path(id) == get_rootfs(id) \o (StartPipePrefix \o id)

\* the id names one path component: "<id>.json" lies in the state directory
\* itself and "bento-start-<id>" in <rootfs>/tmp itself
one_component(id) == ~contains(id, <<"/">>)

(* ------------------------------ sync pipes ---------------------------- *)
\* what travels in the sync pipes: SyncSignal::Ready 'R', SyncSignal::Mapped
\* 'M', and the 4 bytes of Init's pid (one atomic write)
SyncSignal(c) == [sig |-> c, pid |-> 0]
PidBytes(n) == [sig |-> "pid", pid |-> n]

\* pipe_wait: read one byte, decode it with SyncSignal::from_byte, compare it
\* with the expected signal.  At end of file read() returns 0 and the buffer
\* keeps its 0 byte, which from_byte rejects.
pipe_wait(buf, expected) ==
    IF buf = <<>> THEN "err"
    ELSE IF Head(buf).sig \notin {"R", "M"} THEN "err"
    ELSE IF Head(buf).sig # expected THEN "err"
    ELSE "ok"

\* the Orchestrator's read of the 4-byte Init pid: at end of file the buffer
\* stays zeroed and the pid read is 0
read_init_pid(buf) ==
    IF buf # <<>> /\ Head(buf).sig = "pid" THEN Head(buf).pid ELSE 0

\* waitpid(bridge_pid, None) once the call can return
waitpid(g) ==
    IF reaped THEN "ECHILD"
    ELSE IF bridge[g] = "exit0" THEN "Exited0"
    ELSE "Exited1"
WaitpidReturns(g) == reaped \/ bridge[g] \in {"exit0", "exit1"}

(* ---------------------- create: the Orchestrator ---------------------- *)
\* cleanup_named_pipes: remove the host-side FIFO path if it exists
cleanup_named_pipes == fifoPath' = 0

\* An error return of orchestrator_handler (the `?` operator) is passed on
\* by `parent_logic(child)?` in fork_intermediate: create_container returns
\* Err at once; the handler's pipes and the unused child closure are dropped.
OrchFail(g, step) ==
    /\ orch' = "idle"
    /\ orchErr' = step
    /\ createResult' = "err"
    /\ ofds' = [ofds EXCEPT ![g] = {}]

\* create_container up to the fork in fork_intermediate
create_container ==
    /\ orch = "idle"
    /\ cur < MaxCreates
    /\ cur' = cur + 1
    /\ cleanup_named_pipes
    /\ \E outcome \in {"forked", "pipe_err", "fork_err"} :
         Env(outcome = "forked") /\ IF outcome = "forked"
         THEN /\ orch' = "waitR"
              /\ ofds' = [ofds EXCEPT ![cur + 1] = ContainerPipes_create]
              /\ bfds' = [bfds EXCEPT ![cur + 1] = ContainerPipes_create]
              /\ bridge' = [bridge EXCEPT ![cur + 1] = "start"]
              /\ orchErr' = "none"
              /\ createResult' = "none"
         ELSE /\ OrchFail(cur + 1, outcome)
              /\ UNCHANGED <<bfds, bridge>>
    /\ ev' = NoEvents
    /\ finalPid' = 0
    /\ reaped' = FALSE
    /\ UNCHANGED <<stateVars, fifoBuf, fifoW, initVars, pipeVars, startVars>>
    /\ lastCli' = "none"
    /\ UNCHANGED <<listVars, sideVars>>

\* fault injection: an Orchestrator that starts the mapping without waiting
\* for the Bridge's signal
orchestrator_no_wait_ready ==
    /\ orch = "waitR"
    /\ orch' = "mapGid"
    /\ UNCHANGED <<stateVars, fifoVars, cur, finalPid, orchErr, createResult,
                   reaped, ofds, bridgeVars, initVars, pipeVars, ev, startVars,
                   faults>>
    /\ UNCHANGED <<lastCli, listVars, sideVars>>

\* orchestrator_handler: pipe_wait(&pipes.read_fd, SyncSignal::Ready)
orchestrator_wait_ready ==
    /\ orch = "waitR"
    /\ \E ioerr \in BOOLEAN :
         Env(~ioerr) /\ IF ioerr
         THEN OrchFail(cur, "waitR") /\ UNCHANGED b2o
         ELSE /\ CanRead(b2o[cur], EndOpen(cur, "b2o_w"))
              /\ IF pipe_wait(b2o[cur], "R") = "ok"
                 THEN /\ orch' = "mapGid"
                      /\ b2o' = [b2o EXCEPT ![cur] = Tail(@)]
                      /\ UNCHANGED <<orchErr, createResult, ofds>>
                 ELSE OrchFail(cur, "waitR") /\ UNCHANGED b2o
    /\ UNCHANGED <<stateVars, fifoVars, cur, finalPid, reaped, bridgeVars,
                   initVars, o2b, ev, startVars>>
    /\ UNCHANGED <<lastCli, listVars, sideVars>>

\* fault injection: the helper's result is not looked at
execute_mapping_helper_unchecked(at, command, next) ==
    /\ orch = at
    /\ \E ok \in BOOLEAN :
         /\ Env(ok)
         /\ orch' = next
         /\ ev' = IF ok THEN Bump(cur, command) ELSE ev
    /\ UNCHANGED <<stateVars, fifoVars, cur, finalPid, orchErr, createResult,
                   reaped, ofds, bridgeVars, initVars, pipeVars, startVars>>
    /\ UNCHANGED <<lastCli, listVars, sideVars>>

\* execute_mapping_helper: run the helper; a helper that cannot be run or
\* exits non-zero is an error.  map_user_namespace_rootless runs newgidmap,
\* then newuidmap.
execute_mapping_helper(at, command, next) ==
    /\ orch = at
    /\ \E ok \in BOOLEAN :
         Env(ok) /\ IF ok
         THEN /\ orch' = next
              /\ ev' = Bump(cur, command)
              /\ UNCHANGED <<orchErr, createResult, ofds>>
         ELSE OrchFail(cur, command) /\ UNCHANGED ev
    /\ UNCHANGED <<stateVars, fifoVars, cur, finalPid, reaped, bridgeVars,
                   initVars, pipeVars, startVars>>
    /\ UNCHANGED <<lastCli, listVars, sideVars>>

map_user_namespace_rootless ==
    \/ execute_mapping_helper("mapGid", "gidmap", "mapUid")
    \/ execute_mapping_helper("mapUid", "uidmap", "sendM")

\* orchestrator_handler: pipe_signal(&pipes.write_fd, SyncSignal::Mapped);
\* a write to a pipe nobody can read fails with EPIPE
orchestrator_signal_mapped ==
    /\ orch = "sendM"
    /\ IF EndOpen(cur, "o2b_r")
       THEN /\ o2b' = [o2b EXCEPT ![cur] = Append(@, SyncSignal("M"))]
            /\ ev' = Bump(cur, "M")
            /\ orch' = "waitPid"
            /\ UNCHANGED <<orchErr, createResult, ofds>>
       ELSE OrchFail(cur, "sendM") /\ UNCHANGED <<o2b, ev>>
    /\ UNCHANGED <<stateVars, fifoVars, cur, finalPid, reaped, bridgeVars,
                   initVars, b2o, startVars, faults>>
    /\ UNCHANGED <<lastCli, listVars, sideVars>>

\* orchestrator_handler: read(&pipes.read_fd, &mut pid_buf), from_le_bytes
orchestrator_receive_pid ==
    /\ orch = "waitPid"
    /\ \E ioerr \in BOOLEAN :
         Env(~ioerr) /\ IF ioerr
         THEN OrchFail(cur, "waitPid") /\ UNCHANGED <<b2o, finalPid>>
         ELSE /\ CanRead(b2o[cur], EndOpen(cur, "b2o_w"))
              /\ finalPid' = read_init_pid(b2o[cur])
              /\ b2o' = [b2o EXCEPT ![cur] = IF @ = <<>> THEN @ ELSE Tail(@)]
              /\ orch' = "cleanup"
              /\ UNCHANGED <<orchErr, createResult, ofds>>
    /\ UNCHANGED <<stateVars, fifoVars, cur, reaped, bridgeVars, initVars,
                   o2b, ev, startVars>>
    /\ UNCHANGED <<lastCli, listVars, sideVars>>

\* orchestrator_handler: cleanup_named_pipes(&config.container_id)
orchestrator_cleanup ==
    /\ orch = "cleanup"
    /\ cleanup_named_pipes
    /\ orch' = "mkfifo"
    /\ UNCHANGED <<stateVars, fifoBuf, fifoW, cur, finalPid, orchErr,
                   createResult, reaped, ofds, bridgeVars, initVars, pipeVars,
                   ev, startVars, faults>>
    /\ UNCHANGED <<lastCli, listVars, sideVars>>

\* orchestrator_handler: create_dir_all(<rootfs>/tmp)?, remove_file, mkfifo.
\* A failed mkfifo is only logged ("Continue anyway").  With a '/' in the
\* id the FIFO's directory is not <rootfs>/tmp and does not exist.
orchestrator_mkfifo ==
    /\ orch = "mkfifo"
    /\ \E outcome \in {"ok", "mkdir_err", "mkfifo_err"} :
         /\ outcome = "ok" => one_component(container_id)
         /\ Env(outcome = "ok"
                \/ (outcome = "mkfifo_err" /\ ~one_component(container_id)))
         /\ CASE outcome = "ok" ->
                /\ fifoPath' = cur
                /\ ev' = Bump(cur, "mkfifo")
                /\ orch' = "save"
                /\ UNCHANGED <<orchErr, createResult, ofds>>
           [] outcome = "mkfifo_err" ->
                /\ fifoPath' = 0
                /\ orch' = "save"
                /\ UNCHANGED <<ev, orchErr, createResult, ofds>>
           [] outcome = "mkdir_err" ->
                /\ OrchFail(cur, "mkdir")
                /\ UNCHANGED <<fifoPath, ev>>
    /\ UNCHANGED <<stateVars, fifoBuf, fifoW, cur, finalPid, reaped,
                   bridgeVars, initVars, pipeVars, startVars>>
    /\ UNCHANGED <<lastCli, listVars, sideVars>>

\* orchestrator_handler: ContainerState::new, start_pipe_path = Some(..),
\* save_container_state; the write of state/<id>.json fails when the id
\* has a '/' (no such directory)
orchestrator_save ==
    /\ orch = "save"
    /\ IF one_component(container_id)
       THEN /\ save_container_state(
                   [ContainerState_new(container_id, finalPid)
                       EXCEPT !.start_pipe_path =
                                  Some(container_start_pipe_path(container_id))],
                   "create")
            /\ ev' = Bump(cur, "save")
            /\ orch' = "waitBridge"
            /\ UNCHANGED <<orchErr, createResult, ofds>>
       ELSE /\ OrchFail(cur, "save")
            /\ UNCHANGED <<stateVars, ev>>
    /\ UNCHANGED <<fifoVars, cur, finalPid, reaped, bridgeVars, initVars,
                   pipeVars, startVars, faults>>
    /\ UNCHANGED <<lastCli, listVars, sideVars>>

\* orchestrator_handler: match waitpid(bridge_pid, None); on Ok(()) the
\* handler returns and its OrchestratorPipes are dropped
orchestrator_wait_bridge ==
    /\ orch = "waitBridge"
    /\ WaitpidReturns(cur)
    /\ reaped' = TRUE
    /\ IF waitpid(cur) = "Exited1"
       THEN OrchFail(cur, "bridgeStatus")
       ELSE /\ orch' = "outerWait"
            /\ ofds' = [ofds EXCEPT ![cur] = @ \ OrchestratorPipes]
            /\ UNCHANGED <<orchErr, createResult>>
    /\ UNCHANGED <<stateVars, fifoVars, cur, finalPid, bridgeVars, initVars,
                   pipeVars, ev, startVars, faults>>
    /\ UNCHANGED <<lastCli, listVars, sideVars>>

\* fork_intermediate after parent_logic(child)? returned Ok:
\* waitpid(child, None)?; Ok(child)
fork_intermediate_waitpid ==
    /\ orch = "outerWait"
    /\ WaitpidReturns(cur)
    /\ reaped' = TRUE
    /\ IF waitpid(cur) = "ECHILD"
       THEN OrchFail(cur, "waitpid")
       ELSE /\ orch' = "idle"
            /\ createResult' = "ok"
            /\ ofds' = [ofds EXCEPT ![cur] = {}]
            /\ UNCHANGED orchErr
    /\ UNCHANGED <<stateVars, fifoVars, cur, finalPid, bridgeVars, initVars,
                   pipeVars, ev, startVars, faults>>
    /\ UNCHANGED <<lastCli, listVars, sideVars>>

(* ------------------------- create: the Bridge ------------------------- *)
\* a child arm that leaves with status 0 whatever the handler returned
BridgeExit_zero(g, code) ==
    /\ bridge' = [bridge EXCEPT ![g] = "exit0"]
    /\ bfds' = [bfds EXCEPT ![g] = {}]

\* process::exit(exit_code) in fork_intermediate's child arm
BridgeExit(g, code) ==
    /\ bridge' = [bridge EXCEPT ![g] = IF code = 0 THEN "exit0" ELSE "exit1"]
    /\ bfds' = [bfds EXCEPT ![g] = {}]

\* unshare_user_namespace: CloneFlags::CLONE_NEWUSER
unshare_user_namespace == {"user"}

\* unshare_remaining_namespaces:
\* CloneFlags::CLONE_NEWPID | CloneFlags::CLONE_NEWUTS | CloneFlags::CLONE_NEWNS
unshare_remaining_namespaces == {"pid", "uts", "mnt"}

\* bridge_handler phase 1, setup_user_namespace: unshare(CLONE_NEWUSER),
\* write "deny" to /proc/self/setgroups, pipe_signal(Ready)
setup_user_namespace(g) ==
    /\ bridge[g] = "start"
    /\ \E ok \in BOOLEAN :
         Env(ok) /\ IF ok /\ EndOpen(g, "b2o_r")
         THEN /\ b2o' = [b2o EXCEPT ![g] = Append(@, SyncSignal("R"))]
              /\ ev' = Bump(g, "R")
              /\ bridge' = [bridge EXCEPT ![g] = "waitM"]
              /\ UNCHANGED bfds
         ELSE BridgeExit(g, 1) /\ UNCHANGED <<b2o, ev>>
    /\ UNCHANGED <<stateVars, fifoVars, orchVars, initVars, o2b, startVars>>
    /\ UNCHANGED <<lastCli, listVars, sideVars>>

\* bridge_handler phase 2, wait_for_mapping: pipe_wait(Mapped)
wait_for_mapping(g) ==
    /\ bridge[g] = "waitM"
    /\ \E ioerr \in BOOLEAN :
         Env(~ioerr) /\ IF ioerr
         THEN BridgeExit(g, 1) /\ UNCHANGED o2b
         ELSE /\ CanRead(o2b[g], EndOpen(g, "o2b_w"))
              /\ IF pipe_wait(o2b[g], "M") = "ok"
                 THEN /\ o2b' = [o2b EXCEPT ![g] = Tail(@)]
                      /\ bridge' = [bridge EXCEPT ![g] = "unshare2"]
                      /\ UNCHANGED bfds
                 ELSE BridgeExit(g, 1) /\ UNCHANGED o2b
    /\ UNCHANGED <<stateVars, fifoVars, orchVars, initVars, b2o, ev,
                   startVars>>
    /\ UNCHANGED <<lastCli, listVars, sideVars>>

\* bridge_handler phase 3, create_remaining_namespaces:
\* unshare(CLONE_NEWPID | CLONE_NEWUTS | CLONE_NEWNS)
create_remaining_namespaces(g) ==
    /\ bridge[g] = "unshare2"
    /\ \E ok \in BOOLEAN :
         Env(ok) /\ IF ok
         THEN /\ ev' = Bump(g, "unshare2")
              /\ bridge' = [bridge EXCEPT ![g] = "fork"]
              /\ UNCHANGED bfds
         ELSE BridgeExit(g, 1) /\ UNCHANGED ev
    /\ UNCHANGED <<stateVars, fifoVars, orchVars, initVars, pipeVars,
                   startVars>>
    /\ UNCHANGED <<lastCli, listVars, sideVars>>

\* create_init_with_start_pipe: fork(); the child (Init) inherits every
\* descriptor the Bridge has open and the namespaces the Bridge's two
\* unshare calls gave it (the new pid namespace is the one its children get)
create_init_fork(g) ==
    /\ bridge[g] = "fork"
    /\ \E ok \in BOOLEAN :
         Env(ok) /\ IF ok
         THEN /\ ev' = Bump(g, "forkInit")
              /\ init' = [init EXCEPT ![g] = "rootfs"]
              /\ ifds' = [ifds EXCEPT ![g] = bfds[g]]
              /\ initNs' = [initNs EXCEPT ![g] =
                              unshare_user_namespace
                                  \cup unshare_remaining_namespaces]
              /\ bridge' = [bridge EXCEPT ![g] = "sendPid"]
              /\ UNCHANGED bfds
         ELSE BridgeExit(g, 1) /\ UNCHANGED <<ev, init, ifds, initNs>>
    /\ UNCHANGED <<stateVars, fifoVars, orchVars, initIno, initBuf, pipeVars,
                   startVars>>
    /\ UNCHANGED <<lastCli, listVars, container_id, fsVars, jsonVars, cgVars,
                   mapVars>>

\* fault injection: a Bridge that writes the pid bytes twice
create_init_send_pid_twice(g) ==
    /\ bridge[g] = "sendPid"
    /\ b2o' = [b2o EXCEPT ![g] = @ \o <<PidBytes(g), PidBytes(g)>>]
    /\ ev' = IF g = cur THEN [ev EXCEPT !["pid"] = @ + 2] ELSE ev
    /\ BridgeExit(g, 0)
    /\ UNCHANGED <<stateVars, fifoVars, orchVars, initVars, o2b, startVars,
                   faults>>
    /\ UNCHANGED <<lastCli, listVars, sideVars>>

\* create_init_with_start_pipe, parent arm: write the pid bytes, return 0
\* (1 when the write fails)
create_init_send_pid(g) ==
    /\ bridge[g] = "sendPid"
    /\ IF EndOpen(g, "b2o_r")
       THEN /\ b2o' = [b2o EXCEPT ![g] = Append(@, PidBytes(g))]
            /\ ev' = Bump(g, "pid")
            /\ BridgeExit(g, 0)
       ELSE BridgeExit(g, 1) /\ UNCHANGED <<b2o, ev>>
    /\ UNCHANGED <<stateVars, fifoVars, orchVars, initVars, o2b, startVars,
                   faults>>
    /\ UNCHANGED <<lastCli, listVars, sideVars>>

bridge_handler(g) ==
    \/ setup_user_namespace(g)
    \/ wait_for_mapping(g)
    \/ create_remaining_namespaces(g)
    \/ create_init_fork(g)
    \/ create_init_send_pid(g)

(* -------------------------- create: Init ------------------------------ *)
\* processes that have FIFO inode i open for reading or block opening it
Readers(i) == {g \in Gens : initIno[g] = i /\ init[g] \in {"opening", "read"}}

\* a writer's open(2) of the FIFO lets every reader blocked in open(2) return
WakeReaders(i) ==
    [g \in Gens |-> IF initIno[g] = i /\ init[g] = "opening" THEN "read"
                    ELSE init[g]]

\* init_handler_with_pause returns 1; the value reaches process::exit through
\* create_init_with_start_pipe, bridge_handler and fork_intermediate
InitExit(g) ==
    /\ init' = [init EXCEPT ![g] = "exit1"]
    /\ ifds' = [ifds EXCEPT ![g] = {}]
    /\ initIno' = [initIno EXCEPT ![g] = 0]

\* prepare_rootfs: container_id.contains("..") || container_id.contains('/')
\* is an error
prepare_rootfs_id_ok(id) == ~(contains(id, <<".", ".">>) \/ contains(id, <<"/">>))

\* init_handler_with_pause phases 1-3: fs::prepare_rootfs (may fail),
\* set_container_hostname and setup_container_environment (never fail)
init_prepare_rootfs(g) ==
    /\ init[g] = "rootfs"
    /\ \E ok \in BOOLEAN :
         Env(ok) /\ IF ok /\ prepare_rootfs_id_ok(container_id)
         THEN init' = [init EXCEPT ![g] = "open"] /\ UNCHANGED <<ifds, initIno>>
         ELSE InitExit(g)
    /\ UNCHANGED <<stateVars, fifoVars, orchVars, bridgeVars, initBuf,
                   pipeVars, ev, startVars>>
    /\ UNCHANGED <<lastCli, listVars, sideVars>>

\* read_start_signal: OpenOptions::new().read(true).open(pipe_path); the open
\* of a FIFO blocks until a writer has it open
read_start_signal_open(g) ==
    /\ init[g] = "open"
    /\ IF fifoPath = 0
          \/ init_start_pipe_path(container_id)
                 # orchestrator_start_pipe_path(container_id)
       THEN InitExit(g)
       ELSE /\ initIno' = [initIno EXCEPT ![g] = fifoPath]
            /\ init' = [init EXCEPT ![g] =
                          IF fifoW[fifoPath] # {} THEN "read" ELSE "opening"]
            /\ UNCHANGED ifds
    /\ UNCHANGED <<stateVars, fifoVars, orchVars, bridgeVars, initBuf,
                   pipeVars, ev, startVars, faults>>
    /\ UNCHANGED <<lastCli, listVars, sideVars>>

Min(a, b) == IF a < b THEN a ELSE b

\* fault injection: a check of the number of bytes only
read_start_signal_length_only(buffer) == Len(buffer) = TokenLen

\* read_start_signal: `if &buffer == b"start"`
read_start_signal_verify(buffer) == buffer = StartToken

\* read_start_signal: pipe.read_exact(&mut buffer) and the comparison.
\* read_exact reads until the buffer is full; end of file before that is an
\* error.  The File is closed when read_start_signal returns.
read_start_signal_read(g) ==
    /\ init[g] = "read"
    /\ LET i == initIno[g]
           n == Min(TokenLen - Len(initBuf[g]), Len(fifoBuf[i]))
           got == initBuf[g] \o SubSeq(fifoBuf[i], 1, n)
       IN /\ CanRead(fifoBuf[i], fifoW[i] # {})
          /\ IF fifoBuf[i] = <<>>
             THEN InitExit(g) /\ UNCHANGED <<initBuf, fifoBuf>>
             ELSE /\ initBuf' = [initBuf EXCEPT ![g] = got]
                  /\ fifoBuf' = [fifoBuf EXCEPT ![i] =
                                   SubSeq(@, n + 1, Len(@))]
                  /\ IF Len(got) < TokenLen
                     THEN UNCHANGED <<init, ifds, initIno>>
                     ELSE IF read_start_signal_verify(got)
                     THEN /\ init' = [init EXCEPT ![g] = "exec"]
                          /\ initIno' = [initIno EXCEPT ![g] = 0]
                          /\ UNCHANGED ifds
                     ELSE InitExit(g)
    /\ UNCHANGED <<stateVars, fifoPath, fifoW, orchVars, bridgeVars,
                   pipeVars, ev, startVars, faults>>
    /\ UNCHANGED <<lastCli, listVars, sideVars>>

\* init_handler_with_pause phase 5 and exec_user_command: the command must
\* exist and execvp must succeed, else Init returns 1.  The pipe ends Init
\* inherited are not close-on-exec.
exec_user_command(g) ==
    /\ init[g] = "exec"
    /\ \E ok \in BOOLEAN :
         Env(ok) /\ IF ok
         THEN init' = [init EXCEPT ![g] = "execd"] /\ UNCHANGED <<ifds, initIno>>
         ELSE InitExit(g)
    /\ UNCHANGED <<stateVars, fifoVars, orchVars, bridgeVars, initBuf,
                   pipeVars, ev, startVars>>
    /\ UNCHANGED <<lastCli, listVars, sideVars>>

\* the process with pid g is gone (the command ended, or it was killed)
InitGone(g) ==
    /\ init' = [init EXCEPT ![g] = "dead"]
    /\ ifds' = [ifds EXCEPT ![g] = {}]
    /\ initIno' = [initIno EXCEPT ![g] = 0]
    /\ initBuf' = [initBuf EXCEPT ![g] = <<>>]

\* the user command, once running, ends on its own
command_exits(g) ==
    /\ init[g] = "execd"
    /\ InitGone(g)
    /\ UNCHANGED <<stateVars, fifoVars, orchVars, bridgeVars, pipeVars, ev,
                   startVars, faults>>
    /\ UNCHANGED <<lastCli, listVars, sideVars>>

init_handler_with_pause(g) ==
    \/ init_prepare_rootfs(g)
    \/ read_start_signal_open(g)
    \/ read_start_signal_read(g)
    \/ exec_user_command(g)

\* a process other than `bento start` opens the FIFO, writes and closes it
StrayPayloads == {<<>>, <<"x">>}
stray_write ==
    /\ faults < MaxFaults
    /\ fifoPath # 0
    /\ Readers(fifoPath) # {}
    /\ \E payload \in StrayPayloads :
         fifoBuf' = [fifoBuf EXCEPT ![fifoPath] = @ \o payload]
    /\ init' = WakeReaders(fifoPath)
    /\ faults' = faults + 1
    /\ UNCHANGED <<stateVars, fifoPath, fifoW, orchVars, bridgeVars, initIno,
                   initBuf, ifds, pipeVars, ev, startVars>>
    /\ UNCHANGED <<lastCli, listVars, sideVars>>

(* ------------------------------- start -------------------------------- *)
StartReturn(s, r) ==
    /\ st' = [st EXCEPT ![s] = "done"]
    /\ stResult' = [stResult EXCEPT ![s] = r]

\* start_container: load_container_state(container_id)?
start_load(s) ==
    /\ st[s] \in {"idle", "done"}
    /\ stIno' = [stIno EXCEPT ![s] = 0]
    /\ IF stateFile = NoState
       THEN /\ StartReturn(s, "err")
            /\ stState' = [stState EXCEPT ![s] = NoState]
       ELSE /\ stState' = [stState EXCEPT ![s] = stateFile]
            /\ st' = [st EXCEPT ![s] = "probe"]
            /\ stResult' = [stResult EXCEPT ![s] = "none"]
    /\ UNCHANGED <<stateVars, fifoVars, orchVars, bridgeVars, initVars,
                   pipeVars, ev, faults>>
    /\ lastCli' = "none"
    /\ UNCHANGED <<listVars, sideVars>>

\* fault injection: a start that does not test the status
start_status_unchecked(status) == TRUE

\* start_container: the status tests that follow the liveness probe
start_status_ok(status) == status # "running" /\ status = "created"

\* start_container: kill(pid, SIGCONT); a dead Init is recorded as stopped;
\* then the status must be "created"
start_probe(s) ==
    /\ st[s] = "probe"
    /\ IF ~PidAlive(stState[s].pid)
       THEN /\ save_container_state(
                   [stState[s] EXCEPT !.status = "stopped"], "start")
            /\ StartReturn(s, "err")
       ELSE /\ IF start_status_ok(stState[s].status)
               THEN st' = [st EXCEPT ![s] = "open"] /\ UNCHANGED stResult
               ELSE StartReturn(s, "err")
            /\ UNCHANGED stateVars
    /\ UNCHANGED <<fifoVars, orchVars, bridgeVars, initVars, pipeVars, ev,
                   stState, stIno, faults>>
    /\ UNCHANGED <<lastCli, listVars, sideVars>>

\* start_container: the state's start_pipe_path (an error when None), the
\* host path made from it, OpenOptions::new().write(true).open(&host_pipe_path);
\* the path is resolved now, the open returns once the FIFO has a reader
start_open(s) ==
    /\ st[s] = "open"
    /\ IF \/ fifoPath = 0
          \/ ~stState[s].start_pipe_path.some
          \/ host_pipe_path(container_id, stState[s].start_pipe_path.val)
                 # orchestrator_start_pipe_path(container_id)
       THEN StartReturn(s, "err") /\ UNCHANGED <<stIno, fifoW, init>>
       ELSE /\ stIno' = [stIno EXCEPT ![s] = fifoPath]
            /\ UNCHANGED stResult
            /\ IF Readers(fifoPath) # {}
               THEN /\ st' = [st EXCEPT ![s] = "write"]
                    /\ fifoW' = [fifoW EXCEPT ![fifoPath] = @ \cup {s}]
                    /\ init' = WakeReaders(fifoPath)
               ELSE /\ st' = [st EXCEPT ![s] = "opening"]
                    /\ UNCHANGED <<fifoW, init>>
    /\ UNCHANGED <<stateVars, fifoPath, fifoBuf, orchVars, bridgeVars, initIno,
                   initBuf, ifds, pipeVars, ev, stState, faults>>
    /\ UNCHANGED <<lastCli, listVars, sideVars>>

\* the blocked open returns
start_open_returns(s) ==
    /\ st[s] = "opening"
    /\ Readers(stIno[s]) # {}
    /\ st' = [st EXCEPT ![s] = "write"]
    /\ fifoW' = [fifoW EXCEPT ![stIno[s]] = @ \cup {s}]
    /\ init' = WakeReaders(stIno[s])
    /\ UNCHANGED <<stateVars, fifoPath, fifoBuf, orchVars, bridgeVars, initIno,
                   initBuf, ifds, pipeVars, ev, stState, stIno, stResult,
                   faults>>
    /\ UNCHANGED <<lastCli, listVars, sideVars>>

\* fault injection: a single write(2) that stops one byte short, not retried
start_write_short(s) ==
    /\ st[s] = "write"
    /\ fifoW' = [fifoW EXCEPT ![stIno[s]] = @ \ {s}]
    /\ IF Readers(stIno[s]) = {}
       THEN StartReturn(s, "err") /\ UNCHANGED fifoBuf
       ELSE /\ fifoBuf' = [fifoBuf EXCEPT ![stIno[s]] =
                             @ \o SubSeq(StartToken, 1, TokenLen - 1)]
            /\ st' = [st EXCEPT ![s] = "save"]
            /\ UNCHANGED stResult
    /\ UNCHANGED <<stateVars, fifoPath, orchVars, bridgeVars, initVars,
                   pipeVars, ev, stState, stIno, faults>>
    /\ UNCHANGED <<lastCli, listVars, sideVars>>

\* fault injection: a start that ignores the result of write_all and flush
start_write_unchecked(s) ==
    /\ st[s] = "write"
    /\ fifoW' = [fifoW EXCEPT ![stIno[s]] = @ \ {s}]
    /\ fifoBuf' = IF Readers(stIno[s]) = {} THEN fifoBuf
                  ELSE [fifoBuf EXCEPT ![stIno[s]] = @ \o StartToken]
    /\ st' = [st EXCEPT ![s] = "save"]
    /\ UNCHANGED <<stateVars, fifoPath, orchVars, bridgeVars, initVars,
                   pipeVars, ev, stState, stIno, stResult, faults>>
    /\ UNCHANGED <<lastCli, listVars, sideVars>>

\* start_container: pipe.write_all(b"start"), pipe.flush(), and the File is
\* closed at the end of the match arm.  Writing with no reader left is EPIPE.
start_write(s) ==
    /\ st[s] = "write"
    /\ fifoW' = [fifoW EXCEPT ![stIno[s]] = @ \ {s}]
    /\ IF Readers(stIno[s]) = {}
       THEN StartReturn(s, "err") /\ UNCHANGED fifoBuf
       ELSE /\ fifoBuf' = [fifoBuf EXCEPT ![stIno[s]] = @ \o StartToken]
            /\ st' = [st EXCEPT ![s] = "save"]
            /\ UNCHANGED stResult
    /\ UNCHANGED <<stateVars, fifoPath, orchVars, bridgeVars, initVars,
                   pipeVars, ev, stState, stIno, faults>>
    /\ UNCHANGED <<lastCli, listVars, sideVars>>

\* start_container: state.status = "running"; save_container_state
start_save(s) ==
    /\ st[s] = "save"
    /\ save_container_state([stState[s] EXCEPT !.status = "running"], "start")
    /\ st' = [st EXCEPT ![s] = "unlink"]
    /\ UNCHANGED <<fifoVars, orchVars, bridgeVars, initVars, pipeVars, ev,
                   stState, stIno, stResult, faults>>
    /\ UNCHANGED <<lastCli, listVars, sideVars>>

\* start_container: let _ = remove_file(&host_pipe_path); Ok(())
start_unlink(s) ==
    /\ st[s] = "unlink"
    /\ fifoPath' = 0
    /\ StartReturn(s, "ok")
    /\ UNCHANGED <<stateVars, fifoBuf, fifoW, orchVars, bridgeVars, initVars,
                   pipeVars, ev, stState, stIno, faults>>
    /\ UNCHANGED <<lastCli, listVars, sideVars>>

start_container(s) ==
    \/ start_load(s)
    \/ start_probe(s)
    \/ start_open(s)
    \/ start_open_returns(s)
    \/ start_write(s)
    \/ start_save(s)
    \/ start_unlink(s)

(* --------------------------- kill and delete -------------------------- *)
\* fault injection: a kill that records stopped without signalling Init
stop_container_no_signal ==
    /\ IF stateFile = NoState
       THEN /\ lastCli' = "kill_err"
            /\ UNCHANGED stateVars
       ELSE /\ save_container_state(
                   [stateFile EXCEPT !.status = "stopped"], "kill")
            /\ lastCli' = "kill_ok"
    /\ UNCHANGED <<fifoVars, orchVars, bridgeVars, initVars, pipeVars, ev,
                   startVars, faults, listVars,
                   sideVars>>

\* fault injection: a delete that does not look at the status
delete_container_unguarded ==
    /\ save_container_state(NoState, "delete")
    /\ fifoPath' = 0
    /\ lastCli' = "delete_ok"
    /\ UNCHANGED <<fifoBuf, fifoW, orchVars, bridgeVars, initVars, pipeVars,
                   ev, startVars, faults, listVars,
                   sideVars>>

\* fault injection: a delete that removes the state file only
delete_container_keep_fifo ==
    /\ IF stateFile.status = "running"
       THEN /\ lastCli' = "delete_err"
            /\ UNCHANGED stateVars
       ELSE /\ save_container_state(NoState, "delete")
            /\ lastCli' = "delete_ok"
    /\ UNCHANGED <<fifoVars, orchVars, bridgeVars, initVars, pipeVars,
                   ev, startVars, faults, listVars,
                   sideVars>>

\* stop_container (bento kill): load the state, SIGTERM then SIGKILL to the
\* recorded pid, wait, persist status "stopped"
stop_container ==
    /\ IF stateFile = NoState
       THEN /\ lastCli' = "kill_err"
            /\ UNCHANGED <<stateVars, initVars>>
       ELSE /\ save_container_state(
                   [stateFile EXCEPT !.status = "stopped"], "kill")
            /\ IF stateFile.pid \in Gens /\ InitLive(stateFile.pid)
               THEN InitGone(stateFile.pid)
               ELSE UNCHANGED initVars
            /\ lastCli' = "kill_ok"
    /\ UNCHANGED <<fifoVars, orchVars, bridgeVars, pipeVars, ev, startVars,
                   faults, listVars,
                   sideVars>>

\* delete_container (bento delete): load the state, refuse a running
\* container, remove the state file and any residual FIFO; missing pieces
\* are tolerated
delete_container ==
    /\ IF stateFile.status = "running"
       THEN /\ lastCli' = "delete_err"
            /\ UNCHANGED <<stateVars, fifoPath>>
       ELSE /\ save_container_state(NoState, "delete")
            /\ fifoPath' = 0
            /\ lastCli' = "delete_ok"
    /\ UNCHANGED <<fifoBuf, fifoW, orchVars, bridgeVars, initVars, pipeVars,
                   ev, startVars, faults, listVars,
                   sideVars>>

(* -------------------------------- list -------------------------------- *)
\* u64::to_string: the decimal digits of n, most significant first
RECURSIVE to_string(_)
to_string(n) ==
    IF n < Radix THEN <<n>> ELSE to_string(n \div Radix) \o <<n % Radix>>

\* the number of seconds a created_at string was rendered from
RECURSIVE as_secs(_)
as_secs(str) ==
    IF str = <<>> THEN 0
    ELSE as_secs(SubSeq(str, 1, Len(str) - 1)) * Radix + str[Len(str)]

\* the creation times of the state files in the state directory
Stamps == (Radix - StampSpan)..(Radix + StampSpan - 1)

\* the status strings a state file holds
Statuses == {"created", "running", "stopped", "paused"}

\* a state file together with whether its pid names a process
StateFiles ==
    [created_at : {to_string(n) : n \in Stamps}, status : Statuses,
     alive : BOOLEAN]

\* the state directory in read_dir order; a container's id is its position
StateDirs == UNION {[1..n -> StateFiles] : n \in 0..MaxListed}

\* String's Ord::cmp: byte by byte, and a proper prefix is the smaller
RECURSIVE cmp(_, _)
cmp(a, b) ==
    CASE a = <<>> /\ b = <<>> -> "Equal"
      [] a = <<>> -> "Less"
      [] b = <<>> -> "Greater"
      [] Head(a) < Head(b) -> "Less"
      [] Head(a) > Head(b) -> "Greater"
      [] OTHER -> cmp(Tail(a), Tail(b))

\* fault injection: the persisted status shown without regard to the probe
display_status_persisted(info) ==
    CASE info.status = "Running" -> "running"
      [] info.status = "Created" -> "created"
      [] info.status = "Stopped" -> "stopped"
      [] OTHER -> "paused"

\* ContainerInfo::display_status: the first arm of the match that applies
display_status(info) ==
    CASE info.status = "Running" /\ info.runtime_status = "Alive" -> "running"
      [] info.status = "Created" /\ info.runtime_status = "Alive" -> "created"
      [] info.runtime_status = "Dead" -> "stopped"
      [] info.status = "Paused" /\ info.runtime_status = "Alive" -> "paused"
      [] OTHER -> "unknown"

\* ContainerInfo::from_state: kill(pid, SIGCONT) and the parse of the status
ContainerInfo_from_state(id, state) ==
    [id |-> id,
     status |-> CASE state.status = "created" -> "Created"
                  [] state.status = "running" -> "Running"
                  [] state.status = "stopped" -> "Stopped"
                  [] state.status = "paused" -> "Paused"
                  [] OTHER -> "Created",
     created_at |-> state.created_at,
     runtime_status |-> IF state.alive THEN "Alive" ELSE "Dead"]

\* slice::sort_by is stable: x goes behind every element that is not greater
RECURSIVE insert_sorted(_, _)
insert_sorted(x, sorted) ==
    IF sorted = <<>> THEN <<x>>
    ELSE IF cmp(x.created_at, Head(sorted).created_at) = "Less"
         THEN <<x>> \o sorted
         ELSE <<Head(sorted)>> \o insert_sorted(x, Tail(sorted))

RECURSIVE sort_by(_)
sort_by(containers) ==
    IF containers = <<>> THEN <<>>
    ELSE insert_sorted(containers[Len(containers)],
                       sort_by(SubSeq(containers, 1, Len(containers) - 1)))

\* list_containers: read every state file, probe its pid, sort by created_at
list_containers ==
    /\ listed' = sort_by([i \in 1..Len(stateDir) |->
                             ContainerInfo_from_state(i, stateDir[i])])
    /\ UNCHANGED <<stateVars, fifoVars, orchVars, bridgeVars, initVars,
                   pipeVars, ev, startVars, faults, lastCli, stateDir,
                   sideVars>>

(* --------------------------- the state file --------------------------- *)
\* the characters of the field values: the two that JSON escapes
JsonChars == {"\"", "\\"}
JsonStrings == UNION {[1..n -> JsonChars] : n \in 0..MaxStrLen}
\* pids as i32: negative, zero, more than one digit
JsonPids == {0 - 1, 0, 12}

\* struct ContainerState, every field
ContainerStates ==
    [id : JsonStrings, pid : JsonPids, status : JsonStrings,
     bundle_path : JsonStrings, created_at : JsonStrings,
     start_pipe_path : {None} \cup {Some(x) : x \in JsonStrings}]

\* the field names serde derives from the struct, in declaration order
FieldNames ==
    <<<<"i", "d">>, <<"p", "i", "d">>, <<"s", "t", "a", "t", "u", "s">>,
      <<"b", "u", "n", "d", "l", "e", "_", "p", "a", "t", "h">>,
      <<"c", "r", "e", "a", "t", "e", "d", "_", "a", "t">>,
      <<"s", "t", "a", "r", "t", "_", "p", "i", "p", "e", "_", "p", "a", "t",
        "h">>>>

DigitChars == <<"0", "1", "2", "3", "4", "5", "6", "7", "8", "9">>

\* fault injection: a writer that escapes the quote only
RECURSIVE format_escaped_quote_only(_)
format_escaped_quote_only(str) ==
    IF str = <<>> THEN <<>>
    ELSE (IF Head(str) = "\"" THEN <<"\\", "\"">> ELSE <<Head(str)>>)
             \o format_escaped_quote_only(Tail(str))

\* serde_json's string writer: '"' and '\' get a backslash, a newline
\* becomes \n
RECURSIVE format_escaped_str_contents(_)
format_escaped_str_contents(str) ==
    IF str = <<>> THEN <<>>
    ELSE (CASE Head(str) = "\"" -> <<"\\", "\"">>
            [] Head(str) = "\\" -> <<"\\", "\\">>
            [] Head(str) = "\n" -> <<"\\", "n">>
            [] OTHER -> <<Head(str)>>)
             \o format_escaped_str_contents(Tail(str))

serialize_str(str) == <<"\"">> \o format_escaped_str_contents(str) \o <<"\"">>

\* i32 as serde_json writes it: a '-' for a negative number, then the digits
serialize_i32(n) ==
    LET digits == to_string(IF n < 0 THEN 0 - n ELSE n)
    IN (IF n < 0 THEN <<"-">> ELSE <<>>)
           \o [k \in 1..Len(digits) |-> DigitChars[digits[k] + 1]]

\* Option<String>: None is null
serialize_option(opt) ==
    IF opt.some THEN serialize_str(opt.val) ELSE <<"n", "u", "l", "l">>

\* serde_json::to_string_pretty: one "key": value per line, two spaces in
serialize_field(k, value, last) ==
    <<" ", " ">> \o serialize_str(FieldNames[k]) \o <<":", " ">> \o value
        \o (IF last THEN <<>> ELSE <<",">>) \o <<"\n">>

to_string_pretty(state) ==
    <<"{", "\n">>
        \o serialize_field(1, serialize_str(state.id), FALSE)
        \o serialize_field(2, serialize_i32(state.pid), FALSE)
        \o serialize_field(3, serialize_str(state.status), FALSE)
        \o serialize_field(4, serialize_str(state.bundle_path), FALSE)
        \o serialize_field(5, serialize_str(state.created_at), FALSE)
        \o serialize_field(6, serialize_option(state.start_pipe_path), TRUE)
        \o <<"}">>

\* the result of a parsing step: the value and the index of what follows
Parsed(v, i) == [ok |-> TRUE, val |-> v, next |-> i]
ParseFail == [ok |-> FALSE, val |-> <<>>, next |-> 0]

RECURSIVE parse_whitespace(_, _)
parse_whitespace(text, i) ==
    IF i <= Len(text) /\ text[i] \in {" ", "\n"}
    THEN parse_whitespace(text, i + 1) ELSE i

\* the characters of a string literal after its opening quote
RECURSIVE parse_str_body(_, _, _)
parse_str_body(text, i, acc) ==
    IF i > Len(text) THEN ParseFail
    ELSE IF text[i] = "\"" THEN Parsed(acc, i + 1)
    ELSE IF text[i] = "\n" THEN ParseFail
    ELSE IF text[i] = "\\"
    THEN IF i + 1 > Len(text) THEN ParseFail
         ELSE IF text[i + 1] \in {"\"", "\\"}
         THEN parse_str_body(text, i + 2, Append(acc, text[i + 1]))
         ELSE IF text[i + 1] = "n"
         THEN parse_str_body(text, i + 2, Append(acc, "\n"))
         ELSE ParseFail
    ELSE parse_str_body(text, i + 1, Append(acc, text[i]))

parse_str(text, i) ==
    IF i <= Len(text) /\ text[i] = "\"" THEN parse_str_body(text, i + 1, <<>>)
    ELSE ParseFail

DigitValue(c) == CHOOSE d \in 0..9 : DigitChars[d + 1] = c
IsDigit(c) == \E d \in 0..9 : DigitChars[d + 1] = c

RECURSIVE parse_digits(_, _, _)
parse_digits(text, i, n) ==
    IF i <= Len(text) /\ IsDigit(text[i])
    THEN parse_digits(text, i + 1, n * Radix + DigitValue(text[i]))
    ELSE Parsed(n, i)

parse_integer(text, i) ==
    LET neg == i <= Len(text) /\ text[i] = "-"
        from == IF neg THEN i + 1 ELSE i
        r == parse_digits(text, from, 0)
    IN IF r.next = from THEN ParseFail
       ELSE Parsed(IF neg THEN 0 - r.val ELSE r.val, r.next)

\* a value: a string, an integer or null, tagged with its kind
parse_value(text, i) ==
    IF i > Len(text) THEN ParseFail
    ELSE IF text[i] = "\""
    THEN LET r == parse_str(text, i)
         IN IF r.ok THEN Parsed([kind |-> "str", str |-> r.val, num |-> 0],
                                r.next)
            ELSE ParseFail
    ELSE IF text[i] = "n"
    THEN IF i + 3 <= Len(text) /\ SubSeq(text, i, i + 3) = <<"n", "u", "l", "l">>
         THEN Parsed([kind |-> "null", str |-> <<>>, num |-> 0], i + 4)
         ELSE ParseFail
    ELSE LET r == parse_integer(text, i)
         IN IF r.ok THEN Parsed([kind |-> "num", str |-> <<>>, num |-> r.val],
                                r.next)
            ELSE ParseFail

\* the members of an object after '{' or ',': "key" : value, then ',' or '}'
RECURSIVE parse_members(_, _, _)
parse_members(text, i, acc) ==
    LET k == parse_str(text, parse_whitespace(text, i))
        colon == IF k.ok THEN parse_whitespace(text, k.next) ELSE 0
        v == IF k.ok /\ colon <= Len(text) /\ text[colon] = ":"
             THEN parse_value(text, parse_whitespace(text, colon + 1))
             ELSE ParseFail
        after == IF v.ok THEN parse_whitespace(text, v.next) ELSE 0
        members == Append(acc, [key |-> k.val, value |-> v.val])
    IN IF ~v.ok \/ after > Len(text) THEN ParseFail
       ELSE IF text[after] = "," THEN parse_members(text, after + 1, members)
       ELSE IF text[after] = "}" THEN Parsed(members, after + 1)
       ELSE ParseFail

\* what from_str returns when the text is not a ContainerState
ParseError == [error |-> "Failed to parse state file"]

\* serde_json::from_str::<ContainerState>: an object whose members name each
\* field once; the five plain fields must be there with the right kind, a
\* start_pipe_path that is missing or null is None; other keys are skipped
from_str(text) ==
    LET open == parse_whitespace(text, 1)
        ms == IF open <= Len(text) /\ text[open] = "{"
              THEN parse_members(text, open + 1, <<>>) ELSE ParseFail
        Occ(k) == {j \in 1..Len(ms.val) : ms.val[j].key = FieldNames[k]}
        Val(k) == ms.val[CHOOSE j \in Occ(k) : TRUE].value
        IsStr(k) == Cardinality(Occ(k)) = 1 /\ Val(k).kind = "str"
    IN IF ~ms.ok \/ parse_whitespace(text, ms.next) <= Len(text)
       THEN ParseError
       ELSE IF \E k \in 1..6 : Cardinality(Occ(k)) > 1 THEN ParseError
       ELSE IF ~(IsStr(1) /\ IsStr(3) /\ IsStr(4) /\ IsStr(5)) THEN ParseError
       ELSE IF ~(Cardinality(Occ(2)) = 1 /\ Val(2).kind = "num") THEN ParseError
       ELSE IF Occ(6) # {} /\ Val(6).kind = "num" THEN ParseError
       ELSE [id |-> Val(1).str, pid |-> Val(2).num, status |-> Val(3).str,
             bundle_path |-> Val(4).str, created_at |-> Val(5).str,
             start_pipe_path |->
                 IF Occ(6) = {} \/ Val(6).kind = "null" THEN None
                 ELSE Some(Val(6).str)]

\* save_container_state: to_string_pretty(state), std_fs::write
write_state_file ==
    /\ jsonIn # NoState /\ jsonFile = <<>>
    /\ jsonFile' = to_string_pretty(jsonIn)
    /\ UNCHANGED <<stateVars, fifoVars, orchVars, bridgeVars, initVars,
                   pipeVars, ev, startVars, faults, lastCli, listVars,
                   container_id, initNs, fsVars, cgVars, mapVars, jsonIn,
                   jsonOut>>

\* load_container_state: read_to_string, serde_json::from_str
read_state_file ==
    /\ jsonFile # <<>> /\ jsonOut = NoState
    /\ jsonOut' = from_str(jsonFile)
    /\ UNCHANGED <<stateVars, fifoVars, orchVars, bridgeVars, initVars,
                   pipeVars, ev, startVars, faults, lastCli, listVars,
                   container_id, initNs, fsVars, cgVars, mapVars, jsonIn,
                   jsonFile>>

(* ------------------------------ the rootfs --------------------------- *)
\* prepare_rootfs step by step.  fsPc is the call it is at, fsLog the calls
\* made so far, in order; a call the environment may refuse has both
\* outcomes.
FsMove(to, done, dev) ==
    /\ fsPc' = to
    /\ fsLog' = fsLog \o done
    /\ devDir' = dev
    /\ UNCHANGED <<stateVars, fifoVars, orchVars, bridgeVars, initVars,
                   pipeVars, ev, startVars, faults, lastCli, listVars,
                   container_id, initNs, jsonVars, cgVars, mapVars>>

FsStep(to, done) == FsMove(to, done, devDir)

\* an Err returned through `?`: prepare_rootfs is over
FsFail == FsStep("failed", <<>>)

\* phase 1: mount(None, "/", None, MS_REC | MS_PRIVATE, None)
mount_private ==
    /\ fsPc = "private"
    /\ \/ FsStep("get_rootfs", <<"private">>)
       \/ FsFail

\* the id test, then get_rootfs: create_dir_all of rootfs and old_root
prepare_rootfs_dirs ==
    /\ fsPc = "get_rootfs"
    /\ IF prepare_rootfs_id_ok(container_id)
       THEN FsStep("populate", <<>>) \/ FsFail
       ELSE FsFail

\* populate_rootfs_binaries(&rootfs, &config.population_method)?
populate_rootfs_binaries ==
    /\ fsPc = "populate"
    /\ \/ FsStep("bind", <<>>)
       \/ FsFail

\* fault injection: a bind mount whose error is not propagated
mount_bind_rootfs_unchecked ==
    /\ fsPc = "bind"
    /\ \/ FsStep("proc", <<"bind">>)
       \/ FsStep("proc", <<>>)

\* phase 2: mount(Some(&rootfs), &rootfs, None, MS_BIND | MS_REC, None)
mount_bind_rootfs ==
    /\ fsPc = "bind"
    /\ \/ FsStep("proc", <<"bind">>)
       \/ FsFail

\* rootless_mount_proc: create_dir_all(<rootfs>/proc)?, then mount proc; when
\* the mount fails, create_minimal_proc_structure?
rootless_mount_proc ==
    /\ fsPc = "proc"
    /\ \/ FsStep("failed", <<"proc_dir!">>)
       \/ FsStep("sys", <<"proc">>)
       \/ FsStep("sys", <<"proc!", "proc_minimal">>)
       \/ FsStep("failed", <<"proc!", "proc_minimal!">>)

\* mount_tmpfs_sys_with_content when it fails: the first mount (read-only)
\* failed; or it succeeded and the remount that makes it writable failed,
\* which leaves a read-only tmpfs on <rootfs>/sys; or populate or the last
\* remount failed, which leaves a writable one
SysTmpfsFailures == {"sys_tmpfs!", "sys_tmpfs_ro!", "sys_tmpfs_rw!"}

\* fault injection: a /sys setup for which the real sysfs mount is
\* authoritative
rootless_mount_sys_strict ==
    /\ fsPc = "sys"
    /\ \/ FsStep("failed", <<"sys_dir!">>)
       \/ FsStep("dev", <<"sysfs">>)
       \/ FsStep("failed", <<"sysfs!">>)

\* mount_sys_progressive: create_dir_all(<rootfs>/sys)?, then real sysfs, else
\* populated tmpfs, else create_populated_sys_directories?, which cannot
\* write below a read-only tmpfs
rootless_mount_sys ==
    /\ fsPc = "sys"
    /\ \/ FsStep("failed", <<"sys_dir!">>)
       \/ FsStep("dev", <<"sysfs">>)
       \/ FsStep("dev", <<"sysfs!", "sys_tmpfs">>)
       \/ \E tmpfs \in SysTmpfsFailures \ {"sys_tmpfs_ro!"} :
            FsStep("dev", <<"sysfs!", tmpfs, "sys_directories">>)
       \/ \E tmpfs \in SysTmpfsFailures :
            FsStep("failed", <<"sysfs!", tmpfs, "sys_directories!">>)

\* the entries of the host's /dev that the container's /dev is to have
DevNodes == <<"null", "zero", "urandom">>
DevDirs == {"pts", "shm", "mqueue"}
DevPlaceholders == {"null", "zero", "urandom", "random", "tty"}
DevSymlinks == {"fd", "stdin", "stdout", "stderr"}
HostDev == DevPlaceholders \cup DevDirs \cup DevSymlinks

\* create_device_nodes_if_possible: mknod of null, zero, urandom in this
\* order, the first failure ends it; made is the number of nodes made
create_device_nodes_if_possible(made) == {DevNodes[k] : k \in 1..made}

\* create_rootless_dev_structure: the three directories?, the five
\* placeholder files?, then create_dev_symlinks, where a symlink that cannot
\* be made is a warning only
create_rootless_dev_structure(links) ==
    DevDirs \cup DevPlaceholders \cup links

\* rootless_mount_dev: create_dir_all(<rootfs>/dev)?, then bind mount of the
\* host's /dev; else mount tmpfs?, then the device nodes and, when one of
\* them cannot be made, create_rootless_dev_structure?
rootless_mount_dev ==
    /\ fsPc = "dev"
    /\ \/ FsStep("failed", <<"dev_dir!">>)
       \/ FsMove("pivot_root", <<"dev_bind">>, HostDev)
       \/ FsStep("failed", <<"dev_bind!", "dev_tmpfs!">>)
       \/ FsMove("pivot_root", <<"dev_bind!", "dev_tmpfs", "dev_tmpfs_nodes">>,
                 create_device_nodes_if_possible(Len(DevNodes)))
       \/ \E made \in 0..(Len(DevNodes) - 1) :
            \/ \E links \in SUBSET DevSymlinks :
                 FsMove("pivot_root",
                        <<"dev_bind!", "dev_tmpfs", "dev_nodes!",
                          "dev_tmpfs_structure">>,
                        create_device_nodes_if_possible(made)
                            \cup create_rootless_dev_structure(links))
            \/ \E dirs \in {{}, DevDirs} :
                 FsMove("failed",
                        <<"dev_bind!", "dev_tmpfs", "dev_nodes!",
                          "dev_structure!">>,
                        create_device_nodes_if_possible(made) \cup dirs)

\* phase 4: unistd::pivot_root(&rootfs, &old_root)
pivot_root ==
    /\ fsPc = "pivot_root"
    /\ \/ FsStep("chdir", <<"pivot_root">>)
       \/ FsFail

\* unistd::chdir("/")
chdir ==
    /\ fsPc = "chdir"
    /\ \/ FsStep("cleanup", <<"chdir">>)
       \/ FsFail

\* phase 5, cleanup_old_root: umount2("/old_root", MNT_DETACH) and
\* remove_dir_all("/old_root"); a failure of either is a warning only
cleanup_old_root ==
    /\ fsPc = "cleanup"
    /\ \E done \in {<<"detach", "remove">>, <<"detach">>, <<"remove">>, <<>>} :
         FsStep("ready", done)

prepare_rootfs ==
    \/ mount_private \/ prepare_rootfs_dirs \/ populate_rootfs_binaries
    \/ mount_bind_rootfs \/ rootless_mount_proc \/ rootless_mount_sys
    \/ rootless_mount_dev \/ pivot_root \/ chdir \/ cleanup_old_root

(* ------------------------------- cgroups ------------------------------ *)
\* the controllers the runtime wants delegated to the container's cgroup
desired_controllers == {"cpu", "memory", "pids"}

\* the controllers a base cgroup can list in cgroup.controllers
KernelControllers == desired_controllers \cup {"io"}

\* the files apply_limits writes, in the order it writes them
LimitFiles ==
    <<"memory.max", "memory.high", "memory.swap.max", "cpu.max", "cpu.weight",
      "pids.max">>

\* the field of CgroupsConfig a limit file is written from
ConfigField ==
    [f \in {LimitFiles[k] : k \in 1..Len(LimitFiles)} |->
        CASE f = "memory.max" -> "memory_max"
          [] f = "memory.high" -> "memory_high"
          [] f = "memory.swap.max" -> "memory_swap_max"
          [] f = "cpu.max" -> "cpu_max"
          [] f = "cpu.weight" -> "cpu_weight"
          [] f = "pids.max" -> "pids_max"]

\* the option of the create command that sets a field of CgroupsConfig
FlagOf ==
    [f \in {LimitFiles[k] : k \in 1..Len(LimitFiles)} |->
        CASE f = "memory.max" -> "memory_limit"
          [] f = "memory.high" -> "memory_high"
          [] f = "memory.swap.max" -> "memory_swap_limit"
          [] f = "cpu.max" -> "cpu_limit"
          [] f = "cpu.weight" -> "cpu_weight"
          [] f = "pids.max" -> "pids_limit"]

\* the controller whose interface file a limit file is: the kernel puts the
\* file in the container's cgroup only when the base delegates the controller
ControllerOf ==
    [f \in {LimitFiles[k] : k \in 1..Len(LimitFiles)} |->
        CASE f \in {"memory.max", "memory.high", "memory.swap.max"} -> "memory"
          [] f \in {"cpu.max", "cpu.weight"} -> "cpu"
          [] f = "pids.max" -> "pids"]

\* the weight CgroupsConfig::new gives the container, and one a user gives
DefaultCpuWeight == 100
UserCpuWeight == 50

\* CgroupsConfig::default: no limit at all
CgroupsConfig_default ==
    [memory_max |-> None, memory_high |-> None, memory_swap_max |-> None,
     cpu_max |-> None, cpu_weight |-> None, pids_max |-> None]

\* CgroupsConfig::new: the limits of a container whose user asked for none
CgroupsConfig_new ==
    [memory_max |-> Some("512M"), memory_high |-> None,
     memory_swap_max |-> None, cpu_max |-> Some("100000 100000"),
     cpu_weight |-> Some(DefaultCpuWeight), pids_max |-> Some("1000")]

\* the limit options a user can give to create: each one absent or present
CgroupFlags ==
    [memory_limit : {None, Some("1G")}, memory_high : {None, Some("256M")},
     cpu_limit : {None, Some("50000 100000")},
     cpu_weight : {None, Some(UserCpuWeight)},
     memory_swap_limit : {None, Some("0")}, pids_limit : {None, Some("64")},
     no_cgroups : BOOLEAN]

\* a create command line without any cgroup option
NoCgroupFlags ==
    [memory_limit |-> None, memory_high |-> None, cpu_limit |-> None,
     cpu_weight |-> None, memory_swap_limit |-> None, pids_limit |-> None,
     no_cgroups |-> FALSE]

\* an option overrides the field of the configuration when it is present
Override(flag, field) == IF flag.some THEN flag ELSE field

\* Commands::Create: the CgroupsConfig of the command line
cgroups_of_flags(flags) ==
    IF flags.no_cgroups THEN CgroupsConfig_default
    ELSE [memory_max |->
              Override(flags.memory_limit, CgroupsConfig_new.memory_max),
          cpu_max |-> Override(flags.cpu_limit, CgroupsConfig_new.cpu_max),
          cpu_weight |->
              Override(flags.cpu_weight, CgroupsConfig_new.cpu_weight),
          memory_high |->
              Override(flags.memory_high, CgroupsConfig_new.memory_high),
          memory_swap_max |->
              Override(flags.memory_swap_limit,
                       CgroupsConfig_new.memory_swap_max),
          pids_max |-> Override(flags.pids_limit, CgroupsConfig_new.pids_max)]

\* the processes that can be in a cgroup before the container's Init
CgroupPids == 1..MaxProcs

\* the process setup puts in the container's cgroup
CgroupInit == MaxProcs + 1

\* no limit file of the container's cgroup has been written
NoLimits == [f \in {LimitFiles[k] : k \in 1..Len(LimitFiles)} |-> None]

\* a call the manager made: its name, the PID it wrote (0: none), its result
Call(name, pid, ok) == [call |-> name, pid |-> pid, ok |-> ok]

CgMove(to, files, calls) ==
    /\ cgPc' = to
    /\ cgFiles' = files
    /\ cgLog' = cgLog \o calls
    /\ UNCHANGED <<stateVars, fifoVars, orchVars, bridgeVars, initVars,
                   pipeVars, ev, startVars, faults, lastCli, listVars,
                   container_id, initNs, fsVars, jsonVars, mapVars, cgFlags,
                   cgConfig, baseVars>>

\* Commands::Create builds the CgroupsConfig and hands it to create_container
Commands_Create_cgroups ==
    /\ cgPc = "create"
    /\ cgPc' = "create_cgroup_directory"
    /\ cgConfig' = cgroups_of_flags(cgFlags)
    /\ UNCHANGED <<stateVars, fifoVars, orchVars, bridgeVars, initVars,
                   pipeVars, ev, startVars, faults, lastCli, listVars,
                   container_id, initNs, fsVars, jsonVars, mapVars, cgFlags,
                   cgFiles, cgLog, baseVars>>

\* the lines of a cgroup.procs file: the PIDs of the cgroup, ascending
RECURSIVE Lines(_)
Lines(procs) ==
    IF procs = {} THEN <<>>
    ELSE LET p == CHOOSE q \in procs : \A r \in procs : q <= r
         IN  <<p>> \o Lines(procs \ {p})

\* one write of a PID to the cgroup.procs of another cgroup for each line;
\* the kernel moved the PIDs in `moved', the result of no write is looked at
RECURSIVE MoveCalls(_, _, _)
MoveCalls(name, lines, moved) ==
    IF lines = <<>> THEN <<>>
    ELSE <<Call(name, Head(lines), Head(lines) \in moved)>>
             \o MoveCalls(name, Tail(lines), moved)

\* rmdir of a cgroup: the kernel refuses while a process is in it
CanRemove(files) == files.procs = {}

\* cleanup_internal when it removes the directory without moving a PID
cleanup_internal_no_move(files, moved) ==
    IF ~files.dir THEN [ok |-> TRUE, files |-> files, calls |-> <<>>]
    ELSE IF CanRemove(files)
    THEN [ok |-> TRUE,
          files |-> [files EXCEPT !.dir = FALSE, !.limits = NoLimits],
          calls |-> <<Call("remove_dir", 0, TRUE)>>]
    ELSE [ok |-> FALSE, files |-> files,
          calls |-> <<Call("remove_dir", 0, FALSE)>>]

\* CgroupManager::cleanup_internal on `files' when the kernel moves `moved'
cleanup_internal(files, moved) ==
    IF ~files.dir THEN [ok |-> TRUE, files |-> files, calls |-> <<>>]
    ELSE LET pids == IF files.readable THEN files.procs ELSE {}
             left == [files EXCEPT !.procs = @ \ (moved \cap pids),
                                   !.base_procs = @ \cup (moved \cap pids)]
             moves == MoveCalls("move_to_parent", Lines(pids), moved)
         IN  IF CanRemove(left)
             THEN [ok |-> TRUE,
                   files |-> [left EXCEPT !.dir = FALSE, !.limits = NoLimits],
                   calls |-> moves \o <<Call("remove_dir", 0, TRUE)>>]
             ELSE [ok |-> FALSE, files |-> left,
                   calls |-> moves \o <<Call("remove_dir", 0, FALSE)>>]

\* CgroupManager::cleanup
cleanup ==
    /\ cgPc = "cleanup"
    /\ \E moved \in SUBSET cgFiles.procs :
         LET r == cleanup_internal(cgFiles, moved)
         IN  CgMove(IF r.ok THEN "cleaned" ELSE "cleanup_failed", r.files,
                    r.calls)

\* CgroupManager::create_cgroup_directory
create_cgroup_directory ==
    /\ cgPc = "create_cgroup_directory"
    /\ \E moved \in SUBSET cgFiles.procs :
         LET r == cleanup_internal(cgFiles, moved)
         IN  IF r.ok
             THEN CgMove("enable_controllers", [r.files EXCEPT !.dir = TRUE],
                         r.calls \o <<Call("create_dir_all", 0, TRUE)>>)
             ELSE CgMove("failed", r.files, r.calls)

\* a write to cgroup.subtree_control of the base: the kernel refuses it
\* while the base has processes of its own, and when the base is not the
\* user's to delegate from
CanDelegate(files) == files.delegable /\ files.base_procs = {}

\* enable_controllers when it gives up after the first refused write
enable_controllers_once ==
    /\ cgPc = "enable_controllers"
    /\ LET available == IF cgFiles.controllers.some
                        THEN cgFiles.controllers.val ELSE desired_controllers
           enabled == desired_controllers \cap available
       IN  IF enabled = {} THEN CgMove("apply_limits", cgFiles, <<>>)
           ELSE IF CanDelegate(cgFiles)
           THEN CgMove("apply_limits",
                       [cgFiles EXCEPT !.subtree_control = @ \cup enabled],
                       <<Call("write_subtree_control", 0, TRUE)>>)
           ELSE CgMove("failed", cgFiles,
                       <<Call("write_subtree_control", 0, FALSE)>>)

\* CgroupManager::enable_controllers
enable_controllers ==
    /\ cgPc = "enable_controllers"
    /\ LET available == IF cgFiles.controllers.some
                        THEN cgFiles.controllers.val ELSE desired_controllers
           enabled == desired_controllers \cap available
       IN  IF enabled = {} THEN CgMove("apply_limits", cgFiles, <<>>)
           ELSE IF CanDelegate(cgFiles)
           THEN CgMove("apply_limits",
                       [cgFiles EXCEPT !.subtree_control = @ \cup enabled],
                       <<Call("write_subtree_control", 0, TRUE)>>)
           ELSE \E moved \in SUBSET cgFiles.base_procs :
                  LET pids == IF cgFiles.readable
                                THEN cgFiles.base_procs ELSE {}
                      left == [cgFiles EXCEPT
                                 !.base_procs = @ \ (moved \cap pids),
                                 !.evac_procs = @ \cup (moved \cap pids)]
                      calls == <<Call("write_subtree_control", 0, FALSE)>>
                                 \o MoveCalls("move_to_leaf", Lines(pids),
                                              moved)
                  IN  IF CanDelegate(left)
                      THEN CgMove("apply_limits",
                             [left EXCEPT !.subtree_control = @ \cup enabled],
                             calls
                               \o <<Call("write_subtree_control", 0, TRUE)>>)
                      ELSE CgMove("failed", left,
                             calls
                               \o <<Call("write_subtree_control", 0, FALSE)>>)

\* write_cgroup_file: the kernel has the file only for a delegated controller
CanWrite(files, f) == ControllerOf[f] \in files.subtree_control

\* the limit files apply_limits has written when it stops at file k, and
\* whether it stopped there on a failed write
RECURSIVE LimitsFrom(_, _, _)
LimitsFrom(files, config, k) ==
    IF k > Len(LimitFiles) THEN [ok |-> TRUE, files |-> files, calls |-> <<>>]
    ELSE LET f == LimitFiles[k]
             v == config[ConfigField[f]]
             content == IF f = "cpu.weight" /\ v.some
                        THEN Some(to_string(v.val)) ELSE v
         IN  IF ~v.some THEN LimitsFrom(files, config, k + 1)
             ELSE IF ~CanWrite(files, f)
             THEN [ok |-> FALSE, files |-> files,
                   calls |-> <<Call(f, 0, FALSE)>>]
             ELSE LET r == LimitsFrom(
                             [files EXCEPT !.limits[f] = content], config,
                             k + 1)
                  IN  [r EXCEPT !.calls = <<Call(f, 0, TRUE)>> \o @]

\* CgroupManager::apply_limits
apply_limits ==
    /\ cgPc = "apply_limits"
    /\ LET r == LimitsFrom(cgFiles, cgConfig, 1)
       IN  CgMove(IF r.ok THEN "add_process" ELSE "failed", r.files, r.calls)

\* CgroupManager::add_process
add_process ==
    /\ cgPc = "add_process"
    /\ CgMove("ok", [cgFiles EXCEPT !.procs = @ \cup {CgroupInit}],
              <<Call("add_process", CgroupInit, TRUE)>>)

\* CgroupManager::setup
setup ==
    \/ create_cgroup_directory
    \/ enable_controllers
    \/ apply_limits
    \/ add_process

\* the mount point of the unified hierarchy, as path components
CgroupRoot == <<"/", "sys", "fs", "cgroup">>

\* the names a component of the runtime's cgroup path can have
CgroupNames == {"bento-control", "user.slice", "app.scope"}

\* the relative paths /proc/self/cgroup can show on its 0:: line
RECURSIVE CgroupPathsOf(_)
CgroupPathsOf(n) ==
    IF n = 0 THEN {<<>>}
    ELSE LET shorter == CgroupPathsOf(n - 1)
         IN  shorter \cup {Append(q, c) : q \in shorter, c \in CgroupNames}
CgroupPaths == CgroupPathsOf(MaxDepth)

\* Path::file_name: the last component, none for the root directory
file_name(path) == IF Len(path) <= 1 THEN None ELSE Some(path[Len(path)])

\* Path::parent: the path without its last component, none for the root
parent(path) ==
    IF Len(path) <= 1 THEN None ELSE Some(SubSeq(path, 1, Len(path) - 1))

\* the user service cgroup next to the candidate base
user_service_path(path) ==
    Append(IF parent(path).some THEN parent(path).val ELSE path,
           "user@1000.service")

\* the user service cgroup systemd delegates to the user
fallback_path ==
    CgroupRoot \o <<"user.slice", "user-1000.slice", "user@1000.service">>

\* can_write_to_cgroup
can_write_to_cgroup(path) == path \in writable

BaseMove(to, path) ==
    /\ cgPc' = to
    /\ base_path' = path
    /\ UNCHANGED <<stateVars, fifoVars, orchVars, bridgeVars, initVars,
                   pipeVars, ev, startVars, faults, lastCli, listVars,
                   container_id, initNs, fsVars, jsonVars, mapVars, cgFlags,
                   cgConfig, cgFiles, cgLog, proc_self_cgroup, writable>>

\* get_user_cgroup_base, the line of the unified hierarchy
read_proc_self_cgroup ==
    /\ cgPc = "get_user_cgroup_base"
    /\ IF proc_self_cgroup.some
       THEN BaseMove("candidate", CgroupRoot \o proc_self_cgroup.val)
       ELSE BaseMove("no_base", base_path)

\* the loop when it is an `if': one bento-control component is taken off
ascend_bento_control_once ==
    /\ cgPc = "candidate"
    /\ IF file_name(base_path) = Some("bento-control")
          /\ parent(base_path).some
       THEN BaseMove("probe", parent(base_path).val)
       ELSE BaseMove("probe", base_path)

\* get_user_cgroup_base, one turn of the loop that takes trailing
\* bento-control components off the base path
ascend_bento_control ==
    /\ cgPc = "candidate"
    /\ IF file_name(base_path) = Some("bento-control")
          /\ parent(base_path).some
       THEN BaseMove("candidate", parent(base_path).val)
       ELSE BaseMove("probe", base_path)

\* get_user_cgroup_base, the first writable one of the three paths
probe_writable ==
    /\ cgPc = "probe"
    /\ IF can_write_to_cgroup(base_path) THEN BaseMove("found", base_path)
       ELSE IF can_write_to_cgroup(user_service_path(base_path))
       THEN BaseMove("found", user_service_path(base_path))
       ELSE IF can_write_to_cgroup(fallback_path)
       THEN BaseMove("found", fallback_path)
       ELSE BaseMove("no_base", base_path)

get_user_cgroup_base ==
    read_proc_self_cgroup \/ ascend_bento_control \/ probe_writable

(* ------------------------------ id mappings --------------------------- *)
\* the number of values of the unsigned integer type, and its largest value
IdModulus == 2 ^ IdBits
IdMax == IdModulus - 1

\* the values a field of a mapping is drawn from: the ends of the range
IdValues == {0, 1, 2, IdMax}

\* IDMap
IDMaps == [container_id : IdValues, host_id : IdValues, size : IdValues]

\* the lists of at most n mappings
RECURSIVE MapLists(_)
MapLists(n) ==
    IF n = 0 THEN {<<>>}
    ELSE LET shorter == MapLists(n - 1)
         IN  shorter \cup {Append(l, m) : l \in shorter, m \in IDMaps}

\* u32::checked_add: none when the sum does not fit
checked_add(a, b) == IF a + b > IdMax THEN None ELSE Some(a + b)

\* IDMap::validate
validate(m) ==
    /\ m.size # 0
    /\ checked_add(m.container_id, m.size - 1).some
    /\ checked_add(m.host_id, m.size - 1).some

\* `a + b' and `a - b' on the unsigned type: the value the operation wraps
\* to, and whether it overflowed
Add(a, b) == [val |-> (a + b) % IdModulus, overflow |-> a + b > IdMax]
Sub(a, b) == [val |-> (a - b + IdModulus) % IdModulus, overflow |-> a < b]

\* check_overlaps: `start + size - 1', the sum first
range_end(start, size) ==
    LET sum == Add(start, size)
        end == Sub(sum.val, 1)
    IN  [val |-> end.val, overflow |-> sum.overflow \/ end.overflow]

\* BTreeMap::range(..=end) followed by the test of the loop body: an entry
\* that starts at or before `end' and ends at or after `start'
Overlaps(ranges, start, end) ==
    \E r \in ranges : r[1] <= end /\ r[2] >= start

\* BTreeMap::insert: the entry replaces one with the same key
Insert(ranges, start, end) ==
    {r \in ranges : r[1] # start} \cup {<<start, end>>}

\* check_overlaps from mapping k on, with the two maps filled so far
RECURSIVE check_overlaps_from(_, _, _, _, _)
check_overlaps_from(maps, k, container_ranges, host_ranges, checks) ==
    IF k > Len(maps) THEN "ok"
    ELSE LET m == maps[k]
             container_end == range_end(m.container_id, m.size)
         IN  IF container_end.overflow /\ checks THEN "panic"
             ELSE LET host_end == range_end(m.host_id, m.size)
                  IN  IF host_end.overflow /\ checks THEN "panic"
                      ELSE IF Overlaps(container_ranges, m.container_id,
                                       container_end.val)
                      THEN "overlap"
                      ELSE IF Overlaps(host_ranges, m.host_id, host_end.val)
                      THEN "overlap"
                      ELSE check_overlaps_from(maps, k + 1,
                             Insert(container_ranges, m.container_id,
                                    container_end.val),
                             Insert(host_ranges, m.host_id, host_end.val),
                             checks)

\* Linux::check_overlaps
check_overlaps(maps, checks) == check_overlaps_from(maps, 1, {}, {}, checks)

\* Linux::validate_id_mappings
validate_id_mappings ==
    /\ map_result = "none"
    /\ map_result' =
         IF \E k \in 1..Len(mappings) : ~validate(mappings[k])
         THEN "invalid" ELSE check_overlaps(mappings, overflow_checks)
    /\ UNCHANGED <<stateVars, fifoVars, orchVars, bridgeVars, initVars,
                   pipeVars, ev, startVars, faults, lastCli, listVars,
                   container_id, initNs, fsVars, jsonVars, cgVars, mappings,
                   overflow_checks>>

(* --------------------------- specifications --------------------------- *)
orchestrator_handler ==
    \/ orchestrator_wait_ready
    \/ map_user_namespace_rootless
    \/ orchestrator_signal_mapped
    \/ orchestrator_receive_pid
    \/ orchestrator_cleanup
    \/ orchestrator_mkfifo
    \/ orchestrator_save
    \/ orchestrator_wait_bridge

\* no create and no start invocation is in progress
CliIdle == orch = "idle" /\ \A s \in Starters : st[s] \in {"idle", "done"}

\* a new start invocation takes the first slot that is not in use
FirstFree(s) == \A t \in Starters : t < s => st[t] \notin {"idle", "done"}

\* the steps of a start invocation after its first
start_steps(s) ==
    \/ start_probe(s)
    \/ start_open(s)
    \/ start_open_returns(s)
    \/ start_write(s)
    \/ start_save(s)
    \/ start_unlink(s)

\* the steps that begin a CLI invocation (kill and delete are one step)
CliInvoke ==
    \/ create_container
    \/ \E s \in Starters : FirstFree(s) /\ start_load(s)
    \/ stop_container
    \/ delete_container

\* the steps of processes that are already running
Running ==
    \/ orchestrator_handler
    \/ fork_intermediate_waitpid
    \/ \E g \in Gens : bridge_handler(g)
    \/ \E g \in Gens : init_handler_with_pause(g)
    \/ \E g \in Gens : command_exits(g)
    \/ \E s \in Starters : start_steps(s)
    \/ stray_write

\* CLI invocations one after the other, each running concurrently with the
\* Bridge and Init processes that earlier invocations left behind
Next ==
    \/ CliIdle /\ CliInvoke
    \/ Running

Spec == Init /\ [][Next]_vars

\* the invocations whose code is in process.rs only: create and start
CodeNext ==
    \/ CliIdle /\ (create_container
                   \/ \E s \in Starters : FirstFree(s) /\ start_load(s))
    \/ Running

CodeSpec == Init /\ [][CodeNext]_vars

\* the processes of bento alone: nothing else writes to the FIFO
CliRunning ==
    \/ orchestrator_handler
    \/ fork_intermediate_waitpid
    \/ \E g \in Gens : bridge_handler(g)
    \/ \E g \in Gens : init_handler_with_pause(g)
    \/ \E g \in Gens : command_exits(g)
    \/ \E s \in Starters : start_steps(s)

\* the four commands one after the other, with the processes they left behind
CliNext ==
    \/ CliIdle /\ CliInvoke
    \/ CliRunning

CliSpec == Init /\ [][CliNext]_vars

\* every process that can take a step eventually takes one; which outcome the
\* environment gives a step is not constrained
FairSpec ==
    /\ Spec
    /\ WF_vars(orchestrator_handler \/ fork_intermediate_waitpid)
    /\ \A g \in Gens : WF_vars(bridge_handler(g))
    /\ \A g \in Gens : WF_vars(init_handler_with_pause(g))
    /\ \A s \in Starters : WF_vars(start_steps(s))

\* CodeSpec with the same scheduling as FairSpec
CodeFairSpec ==
    /\ CodeSpec
    /\ WF_vars(orchestrator_handler \/ fork_intermediate_waitpid)
    /\ \A g \in Gens : WF_vars(bridge_handler(g))
    /\ \A g \in Gens : WF_vars(init_handler_with_pause(g))
    /\ \A s \in Starters : WF_vars(start_steps(s))

\* one create, then start invocations that run concurrently with one another
ConcNext ==
    \/ cur = 0 /\ create_container
    \/ orch = "idle" /\ \E s \in Starters : FirstFree(s) /\ start_load(s)
    \/ Running

ConcSpec == Init /\ [][ConcNext]_vars

\* bento list run on a state directory that holds several containers
ListInit ==
    /\ NoContainer /\ NoSide /\ container_id = ValidId
    /\ stateDir \in StateDirs /\ listed = <<>>

ListNext == list_containers

ListSpec == ListInit /\ [][ListNext]_vars

\* one create and the starts that follow it, for each kind of container id
IdInit ==
    /\ NoContainer /\ NoList /\ NoSide
    /\ container_id \in ContainerIds

IdNext ==
    \/ cur = 0 /\ create_container
    \/ CliIdle /\ \E s \in Starters : FirstFree(s) /\ start_load(s)
    \/ Running

IdSpec == IdInit /\ [][IdNext]_vars

\* a ContainerState is written to its state file and loaded again
JsonInit ==
    /\ NoContainer /\ NoList /\ container_id = ValidId
    /\ NoFs /\ NoCg /\ NoMap
    /\ jsonIn \in ContainerStates /\ jsonFile = <<>> /\ jsonOut = NoState

JsonNext == write_state_file \/ read_state_file

JsonSpec == JsonInit /\ [][JsonNext]_vars

\* Init's prepare_rootfs alone, for each container id
RootfsInit ==
    /\ NoContainer /\ NoList /\ container_id \in ContainerIds
    /\ fsPc = "private" /\ fsLog = <<>> /\ devDir = {}
    /\ NoJson /\ NoCg /\ NoMap

RootfsSpec == RootfsInit /\ [][prepare_rootfs]_vars

\* cgroups on their own: a create command line and the cgroups of the host
\* it runs on, or the cleanup of a container's cgroup
CgroupHosts ==
    [controllers : {None} \cup {Some(c) : c \in SUBSET KernelControllers},
     subtree_control : {{}}, delegable : BOOLEAN, readable : BOOLEAN,
     base_procs : SUBSET CgroupPids, evac_procs : {{}}, dir : {FALSE},
     procs : {{}}, limits : {NoLimits}]

\* a host on which a cgroup of the container is left from an earlier run
CgroupLeftovers ==
    [controllers : {Some(desired_controllers)},
     subtree_control : {desired_controllers}, delegable : {TRUE},
     readable : BOOLEAN, base_procs : {{}}, evac_procs : {{}}, dir : {TRUE},
     procs : SUBSET CgroupPids, limits : {NoLimits}]

\* a host that delegates every controller
CgroupHost ==
    [controllers |-> Some(desired_controllers), subtree_control |-> {},
     delegable |-> TRUE, readable |-> TRUE, base_procs |-> {},
     evac_procs |-> {}, dir |-> FALSE, procs |-> {}, limits |-> NoLimits]

CgroupInitial ==
    /\ NoContainer /\ NoList /\ NoFs /\ NoJson /\ NoMap
    /\ container_id = ValidId
    /\ cgConfig = <<>> /\ cgLog = <<>>
    /\ proc_self_cgroup = <<>> /\ base_path = <<>> /\ writable = {}
    /\ \/ /\ cgPc = "create"
          /\ cgFlags \in CgroupFlags
          /\ cgFiles = CgroupHost
       \/ /\ cgPc = "create"
          /\ cgFlags \in {f \in CgroupFlags :
                            \A n \in DOMAIN f \ {"no_cgroups"} : ~f[n].some}
          /\ cgFiles \in CgroupHosts \cup CgroupLeftovers
       \/ /\ cgPc = "cleanup"
          /\ cgFlags = NoCgroupFlags
          /\ cgFiles \in CgroupLeftovers
                           \cup {h \in CgroupHosts : h.base_procs = {}}

CgroupNext == Commands_Create_cgroups \/ setup \/ cleanup

CgroupSpec == CgroupInitial /\ [][CgroupNext]_vars

\* the discovery of the base cgroup on its own: a cgroup path of the runtime
\* (or no line of the unified hierarchy) and the directories it may write to
BaseInit ==
    /\ NoContainer /\ NoList /\ NoFs /\ NoJson /\ NoMap
    /\ container_id = ValidId
    /\ cgPc = "get_user_cgroup_base"
    /\ cgFlags = <<>> /\ cgConfig = <<>> /\ cgFiles = <<>> /\ cgLog = <<>>
    /\ proc_self_cgroup \in {None} \cup {Some(q) : q \in CgroupPaths}
    /\ base_path = <<>>
    /\ \E tried \in SUBSET {"base", "user_service", "fallback"} :
         writable =
           {CgroupRoot \o q : q \in {r \in CgroupPaths : "base" \in tried}}
             \cup {user_service_path(CgroupRoot \o q) :
                     q \in {r \in CgroupPaths : "user_service" \in tried}}
             \cup {r \in {fallback_path} : "fallback" \in tried}

BaseSpec == BaseInit /\ [][get_user_cgroup_base]_vars

\* the discovery runs on as long as it has a step to take
BaseFairSpec == BaseSpec /\ WF_vars(get_user_cgroup_base)

\* the validation of a list of id mappings on its own, in a build with and
\* in a build without overflow checks
MapInit ==
    /\ NoContainer /\ NoList /\ NoFs /\ NoJson /\ NoCg
    /\ container_id = ValidId
    /\ mappings \in MapLists(MaxMaps)
    /\ overflow_checks \in BOOLEAN
    /\ map_result = "none"

MapSpec == MapInit /\ [][validate_id_mappings]_vars

(* ------------------------------- claims ------------------------------- *)
\* C1: every change of the persisted status is a forward step along
\* created -> running -> stopped -> absent, entered from absent by create;
\* no invocation moves the status backwards (running or stopped to created).
C1_StatusChain ==
    lastOp # "none" =>
        <<prevStatus, stateFile.status>> \in
            {<<"absent", "created">>, <<"created", "running">>,
             <<"created", "stopped">>, <<"created", "absent">>,
             <<"running", "stopped">>, <<"running", "absent">>,
             <<"stopped", "absent">>}

\* C2: within one create call an event of the handshake has happened only
\* when the one before it has: R, then the GID/UID maps, then M, then the
\* Bridge's second unshare, then the fork of Init, then the write of the pid.
C2_HandshakeOrder ==
    /\ ev.gidmap > 0 => ev.R > 0
    /\ ev.uidmap > 0 => ev.R > 0
    /\ ev.M > 0 => (ev.gidmap > 0 /\ ev.uidmap > 0)
    /\ ev.unshare2 > 0 => ev.M > 0
    /\ ev.forkInit > 0 => ev.unshare2 > 0
    /\ ev.pid > 0 => ev.forkInit > 0

\* the whole handshake of a call has happened
C2_Witness ==
    /\ ev.R = 1 /\ ev.gidmap = 1 /\ ev.uidmap = 1 /\ ev.M = 1
    /\ ev.unshare2 = 1 /\ ev.forkInit = 1 /\ ev.pid = 1

\* C3: one create call writes at most one R, at most one M and at most one
\* Init pid to the sync pipes, and exactly one of each when it succeeds
\* (orchestrator_handler returned Ok, or create_container did).
C3_OneOfEach ==
    /\ ev.R <= 1 /\ ev.M <= 1 /\ ev.pid <= 1
    /\ (orch = "outerWait" \/ createResult = "ok") =>
           (ev.R = 1 /\ ev.M = 1 /\ ev.pid = 1)

\* orchestrator_handler has returned Ok
C3_Witness == orch = "outerWait" /\ ev.R = 1 /\ ev.M = 1 /\ ev.pid = 1

\* C4: Init is at or past exec only when the 5 bytes it read are "start";
\* an Init that has read 5 other bytes has exited with status 1.
C4_ExecOnlyAfterStart ==
    \A g \in Gens :
        /\ init[g] \in {"exec", "execd"} => initBuf[g] = StartToken
        /\ (Len(initBuf[g]) = TokenLen /\ initBuf[g] # StartToken) =>
               init[g] = "exit1"

\* one Init has read 5 wrong bytes and exited, another has read "start" and
\* runs the command
C4_Witness ==
    \E g, h \in Gens :
        /\ init[g] = "exit1" /\ Len(initBuf[g]) = TokenLen
        /\ initBuf[g] # StartToken
        /\ init[h] = "execd" /\ initBuf[h] = StartToken

\* C5: a create call that has returned after the whole handshake, the write
\* of the state file and a Bridge that exited with status 0 has returned
\* success.
C5_CreateSucceeds ==
    (/\ cur > 0 /\ orch = "idle"
     /\ ev.R = 1 /\ ev.gidmap = 1 /\ ev.uidmap = 1 /\ ev.M = 1 /\ ev.pid = 1
     /\ ev.save = 1 /\ bridge[cur] = "exit0")
        => createResult = "ok"

\* C6: a create call whose handshake fails - the Orchestrator's step ends
\* with an error, or the Bridge's wait for M ends with a pipe error - writes
\* no state file and returns an error.
C6_FailureReturnsError ==
    /\ [](orchErr \in {"waitR", "gidmap", "uidmap", "sendM", "waitPid"}
            => ev.save = 0)
    /\ (\/ orchErr \in {"waitR", "gidmap", "uidmap", "sendM", "waitPid"}
        \/ (cur > 0 /\ bridge[cur] = "exit1" /\ ev.R = 1 /\ ev.M = 0))
         ~> (createResult = "err" /\ ev.save = 0)

\* C7: when create has returned an error from a step after the fork of the
\* Bridge and before the state is persisted, neither the Bridge nor Init of
\* that call is still alive.
C7_NoSurvivors ==
    (/\ createResult = "err"
     /\ orchErr \in {"waitR", "gidmap", "uidmap", "sendM", "waitPid", "mkdir"})
        => /\ bridge[cur] \in {"none", "exit0", "exit1"}
           /\ ~InitLive(cur)

\* C8: every create invocation eventually returns.
C8_CreateReturns == (orch # "idle") ~> (orch = "idle")

\* C9: once Init has been forked, while Orchestrator, Bridge and Init all
\* run, the Orchestrator holds the o2b write end and the b2o read end only,
\* the Bridge the o2b read end and the b2o write end only, and Init none of
\* the four.
C9_PipeEndsExclusive ==
    \A g \in Gens :
        (g = cur /\ orch # "idle" /\ bridge[g] = "sendPid" /\ InitLive(g)) =>
            /\ ofds[g] \cap SyncEnds = {"o2b_w", "b2o_r"}
            /\ bfds[g] \cap SyncEnds = {"o2b_r", "b2o_w"}
            /\ ifds[g] \cap SyncEnds = {}

\* C10: a start invocation that loaded a status other than created never
\* gets to open or write the FIFO, and when it has returned it has returned
\* an error.
C10_StartRejected ==
    \A s \in Starters :
        stState[s].status \notin {"absent", "created"} =>
            /\ st[s] \in {"idle", "probe", "done"}
            /\ st[s] = "done" => stResult[s] = "err"

\* start found a running container whose Init is alive and returned an error
C10_Witness ==
    \E s \in Starters :
        /\ stState[s].status = "running" /\ PidAlive(stState[s].pid)
        /\ stateFile.status = "running"
        /\ st[s] = "done" /\ stResult[s] = "err"

\* C11: a start that finds the Init of the loaded state dead ends at the
\* probe: it returns an error, the persisted status becomes stopped, and it
\* has not opened and does not open the FIFO.
C11_DeadInitStopped ==
    [][\A s \in Starters :
          (/\ st[s] = "probe" /\ st'[s] # "probe"
           /\ stState[s].pid \in Gens /\ ~InitLive(stState[s].pid))
          => /\ st'[s] = "done" /\ stResult'[s] = "err"
             /\ stateFile' = [stState[s] EXCEPT !.status = "stopped"]
             /\ fifoW' = fifoW /\ stIno'[s] = 0]_vars

C11_Witness ==
    /\ st[1] = "done" /\ stResult[1] = "err" /\ stIno[1] = 0
    /\ lastOp = "start" /\ prevStatus = "created"
    /\ stateFile.status = "stopped" /\ ~InitLive(stateFile.pid)

\* C12: start persists running only in the step that follows the write of
\* the whole token; a start that fails in the open or the write returns an
\* error and leaves the state file as it loaded it.
C12_RunningAfterToken ==
    [][/\ \A s \in Starters :
            /\ (st[s] \in {"open", "opening", "write"} /\ st'[s] # st[s])
               => stateFile' = stateFile
            /\ (st[s] \in {"open", "opening", "write"} /\ st'[s] = "done")
               => stResult'[s] = "err"
            /\ (st[s] = "write" /\ st'[s] = "save")
               => fifoBuf'[stIno[s]] = fifoBuf[stIno[s]] \o StartToken
       /\ (stateFile'.status = "running" /\ stateFile.status # "running")
          => \E s \in Starters : st[s] = "save" /\ st'[s] = "unlink"]_vars

\* a start whose write failed after its open had succeeded
C12_Witness ==
    \E s \in Starters :
        /\ st[s] = "done" /\ stResult[s] = "err" /\ stIno[s] # 0
        /\ stState[s].status = "created" /\ stateFile.status = "created"

\* C13: whatever the interleaving of concurrent start invocations, at most
\* one of them has the FIFO open for writing, at most one returns success,
\* and once a start has returned success the host FIFO path is unlinked.
C13_SingleStart ==
    /\ \A i \in Gens : Cardinality(fifoW[i]) <= 1
    /\ Cardinality({s \in Starters :
                       st[s] = "done" /\ stResult[s] = "ok"}) <= 1
    /\ \A s \in Starters :
          (st[s] = "done" /\ stResult[s] = "ok") => fifoPath = 0

\* C14: with start invocations as the only writers of the FIFO, however many
\* run concurrently, Init's read_exact ends once, with success, and the five
\* bytes it has read are "start".
C14_ReadExactlyStart ==
    [][faults' = 0 =>
          \A g \in Gens :
              (init[g] = "read" /\ init'[g] # "read")
              => init'[g] = "exec" /\ initBuf'[g] = StartToken]_vars

\* Init has read one token while a second writer's token is left in the FIFO
C14_Witness ==
    /\ faults = 0
    /\ \E g \in Gens : /\ init[g] \in {"exec", "execd"}
                        /\ initBuf[g] = StartToken
                        /\ fifoBuf[g] = StartToken

\* C15: every start invocation eventually returns; in particular one whose
\* Init dies after the probe and before it opens the FIFO returns an error.
C15_StartReturns ==
    \A s \in Starters : (st[s] \notin {"idle", "done"}) ~> (st[s] = "done")

C19_NumericOrder ==
    \A i, j \in 1..Len(listed) :
        i < j => as_secs(listed[i].created_at) <= as_secs(listed[j].created_at)

\* C20: list shows a container whose pid names no process as stopped,
\* whatever status its state file holds, and list changes no state file.
C20_DeadShownStopped ==
    [][/\ stateDir' = stateDir /\ stateFile' = stateFile
       /\ Len(listed') \in {0, Len(stateDir)}
       /\ \A k \in 1..Len(listed') :
             ~stateDir[listed'[k].id].alive
                 => display_status(listed'[k]) = "stopped"]_vars

\* a running and a paused container, both dead, have been listed
C20_Witness ==
    \E i, j \in 1..Len(listed) :
        /\ listed[i].status = "Running" /\ ~stateDir[listed[i].id].alive
        /\ listed[j].status = "Paused" /\ ~stateDir[listed[j].id].alive

\* C21: a create whose container id is empty or contains '/' or ".." is
\* rejected before any process is forked and before any file, FIFO or
\* directory is made: no Bridge and no Init ever exists, no FIFO and no
\* state file is written, and the create call does not return success.
C21_InvalidIdRejected ==
    (\/ container_id = <<>>
     \/ contains(container_id, <<"/">>)
     \/ contains(container_id, <<".", ".">>))
        => /\ \A g \in Gens : bridge[g] = "none" /\ init[g] = "none"
           /\ fifoPath = 0 /\ stateFile = NoState
           /\ createResult # "ok"
           /\ orch = "idle"

\* C22: a create invoked while the state file has status created fails at
\* once and leaves the state file, the resume FIFO and every process of the
\* earlier create as they are.
C22_SecondCreateRefused ==
    [][(stateFile.status = "created" /\ cur' # cur)
       => /\ orch' = "idle" /\ createResult' = "err"
          /\ stateFile' = stateFile
          /\ fifoPath' = fifoPath
          /\ init' = init /\ bridge' = bridge]_vars

\* C23: when create fails because newgidmap or newuidmap could not be run,
\* no process has been forked: the call has no Bridge and no Init.
C23_HelperErrorBeforeFork ==
    (createResult = "err" /\ orchErr \in {"gidmap", "uidmap"})
        => /\ bridge[cur] = "none" /\ init[cur] = "none"
           /\ ev.R = 0

\* C24: newuidmap is run only when newgidmap has succeeded, M is sent only
\* when both helpers have succeeded, and a create that a helper's failure
\* ended has sent no M (and, if it was newgidmap, has not run newuidmap).
C24_MapThenSignal ==
    /\ orch = "mapGid" => ev.gidmap = 0 /\ ev.uidmap = 0 /\ ev.M = 0
    /\ orch = "mapUid" => ev.gidmap = 1 /\ ev.uidmap = 0 /\ ev.M = 0
    /\ orch = "sendM" => ev.gidmap = 1 /\ ev.uidmap = 1 /\ ev.M = 0
    /\ ev.M > 0 => ev.gidmap = 1 /\ ev.uidmap = 1
    /\ orchErr \in {"gidmap", "uidmap"} => ev.M = 0
    /\ orchErr = "gidmap" => ev.gidmap = 0 /\ ev.uidmap = 0
    /\ orchErr = "uidmap" => ev.gidmap = 1 /\ ev.uidmap = 0

\* newgidmap succeeded, newuidmap failed, and the create has returned
C24_Witness ==
    /\ createResult = "err" /\ orchErr = "uidmap"
    /\ ev.gidmap = 1 /\ ev.M = 0 /\ bridge[cur] = "waitM"

\* C25: a ContainerState written to its state file and loaded back is equal
\* to the one written, on every field, whatever the field values; an absent
\* start_pipe_path comes back absent.
C25_RoundTrip == jsonOut # NoState => jsonOut = jsonIn

\* a record with a backslash, a quote, a negative pid and no start pipe
\* path has made the round trip
C25_Witness ==
    /\ jsonOut = jsonIn
    /\ jsonIn.id = <<"\\">> /\ jsonIn.bundle_path = <<"\"">>
    /\ jsonIn.pid < 0 /\ jsonIn.start_pipe_path = None

\* C26: the record in the state file <id>.json has that id, and its start
\* pipe path, appended to $HOME/.local/share/bento/<id>/rootfs as start does,
\* is the path the Orchestrator gave to mkfifo and the path Init opens below
\* its new root.
C26_StatePathsAgree ==
    stateFile # NoState =>
        /\ stateFile.id = container_id
        /\ stateFile.start_pipe_path.some
        /\ host_pipe_path(container_id, stateFile.start_pipe_path.val)
               = orchestrator_start_pipe_path(container_id)
        /\ host_pipe_path(container_id, stateFile.start_pipe_path.val)
               = init_start_pipe_path(container_id)

\* a state file written by a create whose FIFO was made
C26_Witness ==
    /\ container_id = ValidId /\ stateFile # NoState
    /\ stateFile.start_pipe_path = Some(container_start_pipe_path(ValidId))
    /\ fifoPath # 0 /\ ev.mkfifo = 1

\* C27: once Init is forked, the FIFO exists whenever Init attempts to open
\* it (no call having failed), so the open blocks and never fails on a
\* missing path; and no step of
\* create removes or replaces the FIFO an Init has opened or is blocked
\* opening.
C27_FifoReadyForInit ==
    [][\A g \in Gens :
         /\ (faults' = 0 /\ init[g] = "open" /\ init'[g] # "open")
                => (fifoPath # 0 /\ init'[g] \in {"opening", "read"})
         /\ (init[g] \in {"opening", "read"} /\ initIno[g] = fifoPath
                /\ fifoPath' # fifoPath)
                => (orch' = orch /\ cur' = cur)]_vars

\* C28: when create writes the state file the FIFO is there: it was made
\* before the write, and a create whose mkfifo failed writes no state.
C28_FifoBeforeState ==
    [][(orch = "save" /\ stateFile' # stateFile)
          => (fifoPath = cur /\ ev.mkfifo = 1)]_vars

\* C29: Init lives in new user, PID, mount, UTS, IPC and cgroup namespaces.
C29_SixNamespaces ==
    \A g \in Gens :
        init[g] # "none"
            => {"user", "pid", "mnt", "uts", "ipc", "cgroup"} \subseteq initNs[g]

\* the place in fsLog of the first of the calls named, 0 if none succeeded
Position(calls) ==
    IF \E k \in 1..Len(fsLog) : fsLog[k] \in calls
    THEN CHOOSE k \in 1..Len(fsLog) :
             fsLog[k] \in calls /\ \A j \in 1..(k - 1) : fsLog[j] \notin calls
    ELSE 0
ProcSteps == {"proc", "proc_minimal"}
SysSteps == {"sysfs", "sys_tmpfs", "sys_directories"}
DevSteps == {"dev_bind", "dev_tmpfs_nodes", "dev_tmpfs_structure"}
\* b succeeded only after a had
After(a, b) == Position(b) > 0 => (0 < Position(a) /\ Position(a) < Position(b))

\* C30: inside Init the mount tree is made private before any other mount,
\* the rootfs is bind-mounted before /proc, /sys and /dev are set up,
\* pivot_root comes only after the bind mount and the three pseudo-filesystem
\* steps succeeded, and old_root is detached only after pivot_root and chdir.
C30_RootfsOrder ==
    /\ fsLog # <<>> => fsLog[1] = "private"
    /\ After({"bind"}, ProcSteps) /\ After({"bind"}, SysSteps)
    /\ After({"bind"}, DevSteps)
    /\ After({"bind"}, {"pivot_root"}) /\ After(ProcSteps, {"pivot_root"})
    /\ After(SysSteps, {"pivot_root"}) /\ After(DevSteps, {"pivot_root"})
    /\ After({"pivot_root"}, {"chdir"})
    /\ After({"pivot_root"}, {"detach"}) /\ After({"chdir"}, {"detach"})
    /\ fsPc \in {"pivot_root", "chdir", "cleanup", "ready"}
          => /\ Position({"bind"}) > 0 /\ Position(ProcSteps) > 0
             /\ Position(SysSteps) > 0 /\ Position(DevSteps) > 0

\* the rootfs is ready after the fallbacks for /proc and /dev, and old_root
\* has been detached
C30_Witness ==
    /\ fsPc = "ready"
    /\ fsLog = <<"private", "bind", "proc!", "proc_minimal", "sysfs",
                 "dev_bind!", "dev_tmpfs", "dev_nodes!",
                 "dev_tmpfs_structure", "pivot_root", "chdir", "detach">>

\* the last call prepare_rootfs has made, and whether a call has been made
LastCall == IF fsLog = <<>> THEN "none" ELSE fsLog[Len(fsLog)]
Made(call) == \E k \in 1..Len(fsLog) : fsLog[k] = call
ProcCalls == {"proc_dir!", "proc!", "proc_minimal!"}
SysCalls == {"sys_dir!", "sysfs!", "sys_directories!"} \cup SysTmpfsFailures
AllProcFailed == Made("proc!") /\ Made("proc_minimal!")
AllSysFailed ==
    /\ Made("sysfs!") /\ Made("sys_directories!")
    /\ \E tmpfs \in SysTmpfsFailures : Made(tmpfs)

\* C31 as stated: /proc setup returns an error only if the proc mount and the
\* skeleton both failed, /sys setup only if the sysfs mount, the tmpfs mount
\* and the skeleton all failed.
C31_ErrorOnlyAfterAllStrategies ==
    fsPc = "failed" =>
        /\ LastCall \in ProcCalls => AllProcFailed
        /\ LastCall \in SysCalls => AllSysFailed

\* C31, amended: /proc and /sys setup return an error only if the mount
\* point cannot be created or every strategy of the chain has failed; the
\* failure of an earlier strategy alone never ends prepare_rootfs.
C31_DegradesStepByStep ==
    /\ fsPc = "failed" =>
          /\ LastCall \in ProcCalls
                => (LastCall = "proc_dir!" \/ AllProcFailed)
          /\ LastCall \in SysCalls
                => (LastCall = "sys_dir!" \/ AllSysFailed)
    /\ LastCall \in {"proc!", "sysfs!"} \cup SysTmpfsFailures
          => fsPc # "failed"

\* /proc fell back to its skeleton and prepare_rootfs went on; /sys then
\* failed with all three strategies
C31_Witness ==
    /\ fsPc = "failed" /\ LastCall = "sys_directories!"
    /\ Made("proc!") /\ Made("proc_minimal") /\ AllSysFailed

\* C32: when /dev was set up through the tmpfs strategy, the symlinks fd,
\* stdin, stdout, stderr and the directories pts, shm, mqueue are in /dev,
\* whether mknod made the device nodes or placeholders were written.
C32_DevTmpfsComplete ==
    (Made("dev_tmpfs") /\ fsPc \in {"pivot_root", "chdir", "cleanup", "ready"})
        => (DevSymlinks \cup DevDirs) \subseteq devDir

\* the mounts in effect: the mount calls that succeeded, a tmpfs left on
\* <rootfs>/sys by a strategy that failed later included; prepare_rootfs
\* unmounts nothing but old_root
MountCalls ==
    {"bind", "proc", "sysfs", "sys_tmpfs", "sys_tmpfs_ro!", "sys_tmpfs_rw!",
     "dev_bind", "dev_tmpfs"}
IsMount(call) == call \in MountCalls
mount_table == SelectSeq(fsLog, IsMount)
\* the rootfs directory get_rootfs made is there once it was bind-mounted;
\* no call removes it
rootfs_exists == Made("bind")

\* C33: when a step after the bind mount has failed, the mounts made so far
\* are gone and the rootfs directory is removed.
C33_FailureTornDown ==
    (fsPc = "failed" /\ Made("bind"))
        => (mount_table = <<>> /\ ~rootfs_exists)

\* what apply_limits writes to limit file f for the value v of an option
LimitContent(f, v) == IF f = "cpu.weight" THEN Some(to_string(v.val)) ELSE v

\* C34: once the limits of a container are applied, each of the six limit
\* files is written exactly when the user gave the option for it, and holds
\* the value of the option.
C34_OnlyConfiguredLimits ==
    cgPc \in {"add_process", "ok"}
        => \A f \in DOMAIN FlagOf :
             LET flag == cgFlags[FlagOf[f]]
             IN  /\ cgFiles.limits[f].some <=> flag.some
                 /\ flag.some => cgFiles.limits[f] = LimitContent(f, flag)

\* the writes to cgroup.subtree_control of the base, and the writes of a PID
\* to cgroup.procs of the bento-control leaf, in the order they were made
IsSubtreeWrite(c) == c.call = "write_subtree_control"
IsMoveToLeaf(c) == c.call = "move_to_leaf"
SubtreeWrites == SelectSeq(cgLog, IsSubtreeWrite)
LeafMoves == SelectSeq(cgLog, IsMoveToLeaf)
\* where in the log the k-th write to cgroup.subtree_control is
SubtreeWriteAt(k) ==
    CHOOSE i \in 1..Len(cgLog) :
        /\ IsSubtreeWrite(cgLog[i])
        /\ Len(SelectSeq(SubSeq(cgLog, 1, i), IsSubtreeWrite)) = k

\* C35: the write that enables the controllers is made at most twice. When
\* the first write fails, the runtime writes every PID it reads in the base's
\* cgroup.procs to the bento-control leaf, then makes the write a second and
\* last time; when that one fails too, setup ends with the error.
C35_EvacuateAndRetryOnce ==
    /\ Len(SubtreeWrites) <= 2
    /\ (SubtreeWrites # <<>> /\ SubtreeWrites[1].ok) => Len(SubtreeWrites) = 1
    /\ (SubtreeWrites # <<>> /\ ~SubtreeWrites[1].ok)
         => /\ Len(SubtreeWrites) = 2
            /\ cgFiles.readable
                 => {LeafMoves[k].pid : k \in 1..Len(LeafMoves)}
                      = cgFiles.base_procs \cup cgFiles.evac_procs
            /\ \A i \in 1..Len(cgLog) :
                 IsMoveToLeaf(cgLog[i])
                     => SubtreeWriteAt(1) < i /\ i < SubtreeWriteAt(2)
            /\ \A p \in cgFiles.evac_procs :
                 \E k \in 1..Len(LeafMoves) :
                     LeafMoves[k].pid = p /\ LeafMoves[k].ok
            /\ ~SubtreeWrites[2].ok
                 => cgPc = "failed" /\ SubtreeWriteAt(2) = Len(cgLog)

C35_Witness ==
    /\ Len(SubtreeWrites) = 2 /\ ~SubtreeWrites[1].ok /\ SubtreeWrites[2].ok
    /\ cgFiles.evac_procs = CgroupPids /\ cgFiles.base_procs = {}

\* the ancestors of a cgroup path, the path itself included
Ancestors(path) == {SubSeq(path, 1, n) : n \in 1..Len(path)}

\* the nearest ancestor of a cgroup path that is not named bento-control
NearestBase(path) ==
    CHOOSE a \in Ancestors(path) :
        /\ file_name(a) # Some("bento-control")
        /\ \A b \in Ancestors(path) :
             file_name(b) # Some("bento-control") => Len(b) <= Len(a)

\* the discovery has returned
BaseReturned == cgPc \in {"found", "no_base"}

\* what the discovery may return for the cgroup path of the runtime
BaseFound ==
    LET nearest == NearestBase(CgroupRoot \o proc_self_cgroup.val)
    IN  /\ proc_self_cgroup.some
        /\ file_name(base_path) # Some("bento-control")
        /\ base_path \in writable
        /\ nearest \in writable => base_path = nearest
        /\ base_path \in {nearest, user_service_path(nearest), fallback_path}

\* C36: the discovery of the base cgroup returns, and the path it returns
\* never has bento-control as its last component: it is the nearest ancestor
\* of the runtime's cgroup that is not named bento-control when the user can
\* write to that one, and a user service cgroup otherwise.
C36_BaseNeverBentoControl == <>[](BaseReturned /\ (cgPc = "found" => BaseFound))

C36_Witness ==
    /\ cgPc = "found"
    /\ proc_self_cgroup = Some(<<"user.slice", "bento-control", "bento-control">>)
    /\ base_path = CgroupRoot \o <<"user.slice">>

\* cgroup.controllers of the base names none of the desired controllers
NoneAvailable ==
    /\ cgFiles.controllers.some
    /\ cgFiles.controllers.val \cap desired_controllers = {}

\* C37: when none of cpu, memory and pids is available at the base, setup
\* writes nothing to cgroup.subtree_control and does not fail.
C37_NoControllersNoFailure ==
    (cgPc \notin {"create", "cleanup", "cleaned", "cleanup_failed"}
       /\ NoneAvailable)
        => (SubtreeWrites = <<>> /\ cgPc # "failed")

\* the calls a step of the manager adds to the log
NewCalls == SubSeq(cgLog', Len(cgLog) + 1, Len(cgLog'))

\* C38: cleanup of a cgroup directory that does not exist succeeds and
\* changes nothing. Of one that exists, cleanup first writes every PID it
\* reads in the directory's cgroup.procs to the parent's cgroup.procs and
\* only then removes the directory; when a process is still in it at that
\* point, the removal fails, cleanup returns the error and the directory
\* stays.
C38_CleanupMovesThenRemoves ==
    [][cgPc = "cleanup" =>
         IF ~cgFiles.dir
         THEN cgPc' = "cleaned" /\ cgFiles' = cgFiles /\ cgLog' = cgLog
         ELSE LET n == Len(NewCalls)
                  moves == SubSeq(NewCalls, 1, n - 1)
              IN  /\ n >= 1 /\ NewCalls[n].call = "remove_dir"
                  /\ \A k \in 1..(n - 1) : moves[k].call = "move_to_parent"
                  /\ cgFiles.readable
                       => {moves[k].pid : k \in 1..(n - 1)} = cgFiles.procs
                  /\ cgFiles'.procs
                       = cgFiles.procs
                           \ {moves[k].pid : k \in {j \in 1..(n - 1) :
                                                      moves[j].ok}}
                  /\ NewCalls[n].ok <=> cgFiles'.procs = {}
                  /\ IF NewCalls[n].ok
                     THEN cgPc' = "cleaned" /\ ~cgFiles'.dir
                     ELSE cgPc' = "cleanup_failed" /\ cgFiles'.dir]_vars

C38_Witness ==
    /\ cgPc = "cleaned" /\ ~cgFiles.dir /\ cgFiles.base_procs = CgroupPids
    /\ Len(cgLog) = MaxProcs + 1 /\ cgLog[Len(cgLog)].call = "remove_dir"

\* the Bridge or Init of a generation has left through process::exit
BridgeExited(g) == bridge[g] \in {"exit0", "exit1"}
InitExited(g) == init[g] = "exit1"

\* C39: the Bridge and Init never run the code that follows
\* create_container. A Bridge ends in a process exit and takes no step after
\* it; it exits with status 0 only from the write of Init's PID, with the PID
\* written to the pipe. An Init that stops running its handler has either
\* exec'ed the user command or exited with a non-zero status, and takes no
\* step after the exit. No step of a Bridge or an Init sets the result of
\* create_container.
C39_ChildrenNeverReturn ==
    [][\A g \in Gens :
         /\ BridgeExited(g) => bridge'[g] = bridge[g]
         /\ (bridge'[g] = "exit0" /\ bridge[g] # "exit0")
              => /\ bridge[g] = "sendPid"
                 /\ b2o'[g] = Append(b2o[g], PidBytes(g))
         /\ (bridge'[g] # bridge[g] /\ bridge[g] # "none")
              => bridge'[g] \in {"waitM", "unshare2", "fork", "sendPid",
                                 "exit0", "exit1"}
         /\ InitExited(g) => init'[g] = init[g]
         /\ (init[g] \in {"rootfs", "open", "opening", "read", "exec"}
               /\ ~InitLive(g)')
              => InitExited(g)'
         /\ (init[g] = "exec" /\ init'[g] # init[g])
              => init'[g] \in {"execd", "exit1"}
         /\ (createResult' # createResult /\ createResult' # "none")
              => (bridge'[g] = bridge[g] /\ init'[g] = init[g])]_vars

C39_Witness ==
    \E g \in Gens : bridge[g] = "exit0" /\ init[g] = "exit1"

\* the ids a mapping covers on one side
IdRange(start, size) == {i \in 0..IdMax : start <= i /\ i < start + size}

\* two mappings of the list cover a common container id or a common host id
Intersecting ==
    \E j, k \in 1..Len(mappings) :
        /\ j # k
        /\ \/ IdRange(mappings[j].container_id, mappings[j].size)
                \cap IdRange(mappings[k].container_id, mappings[k].size) # {}
           \/ IdRange(mappings[j].host_id, mappings[j].size)
                \cap IdRange(mappings[k].host_id, mappings[k].size) # {}

\* every mapping of the list passes IDMap::validate
AllValid == \A k \in 1..Len(mappings) : validate(mappings[k])

\* C40: for a list whose mappings each pass IDMap::validate, the overlap
\* check ends without an integer overflow and rejects the list exactly when
\* two of its mappings intersect in their container ids or their host ids.
C40_OverlapCheckNoOverflow ==
    (map_result # "none" /\ AllValid)
        => /\ map_result # "panic"
           /\ map_result = "overlap" <=> Intersecting

====
